---- MODULE Spec2Model ----
(***************************************************************************)
(* Review-and-commit state machine of scripts/viewer_server.py: the Queue  *)
(* Store, the Move and Skip History Stores, the filesystem they act on and *)
(* the POST handlers (/api/update-status, /api/move-file, /api/skip-file,  *)
(* /api/update-queue, /api/bulk-move, /api/bulk-skip).                      *)
(*                                                                         *)
(* A path is the sequence of its components; an id is the sequence of its  *)
(* characters; a JSON object is a function from its keys.                  *)
(***************************************************************************)
EXTENDS Naturals, Sequences, FiniteSets, TLC

VARIABLES
    queueFile,        \* QUEUE_FILE: the persisted Queue Store document
    historyFile,      \* HISTORY_FILE: the persisted Move History document
    skipHistoryFile,  \* SKIP_HISTORY_FILE: the persisted Skip History document
    fs,               \* the filesystem: existing path -> node
    pc,               \* position of the request handler
    req,              \* the request being handled
    queue_data,       \* handler local: the queue document as loaded and mutated
    history_data,     \* handler local: the history document as loaded and mutated
    file_index,       \* handler local: index of the entry found (0: none)
    idx,              \* handler local: position in file_ids (bulk loop)
    processed_ids,    \* handler local: ids processed by the bulk loop
    count,            \* handler local: moved_count / skipped_count
    message,          \* handler local: the success message
    resp,             \* the response sent for the request
    pre,              \* the persisted state and filesystem when the request began
    served,           \* number of requests accepted so far
    state_dir,        \* STATE_DIR at the level of the OS: file name -> inode
    inodes,           \* inode -> the chunks of text written to it so far
    writer,           \* a call of atomic_write_json: its position and locals
    reader,           \* a process reading a state file: its position and buffer
    produced          \* ids the external producer has appended to the queue

\* The server's variables, at the level of whole documents.
server_vars == <<queueFile, historyFile, skipHistoryFile, fs, pc, req,
                 queue_data, history_data, file_index, idx, processed_ids,
                 count, message, resp, pre, served>>
\* One write of one state file, at the level of the OS.
write_vars == <<state_dir, inodes, writer, reader>>
\* What the request handlers, whose file writes are single steps, leave alone.
others == <<write_vars, produced>>

vars == <<queueFile, historyFile, skipHistoryFile, fs, pc, req, queue_data,
          history_data, file_index, idx, processed_ids, count, message, resp,
          pre, served, state_dir, inodes, writer, reader, produced>>

stores == <<queueFile, historyFile, skipHistoryFile>>
locals == <<queue_data, history_data, file_index, idx, processed_ids, count,
            message>>

----------------------------------------------------------------------------
\* Bounds of the model.

\* Longest id list of a bulk request.
MaxBulk == 2
\* Requests accepted in one behaviour.
MaxRequests == 1

----------------------------------------------------------------------------
\* Paths.

Last(s) == s[Len(s)]
Front(s) == SubSeq(s, 1, Len(s) - 1)
IsPrefix(p, q) == Len(p) <= Len(q) /\ SubSeq(q, 1, Len(p)) = p

\* The home directory "~" expands to.
HOME == <<"home">>

\* os.path.expanduser: a leading "~" component becomes the home directory.
expanduser(p) ==
    IF Len(p) > 0 /\ p[1] = "~" THEN HOME \o Tail(p) ELSE p

\* unicodedata.normalize('NFC', .) on one component: the decomposed spelling
\* of a name becomes its composed spelling; composed names are fixed points.
NFC(c) ==
    CASE c = "a_nfd.txt" -> "a.txt"
      [] OTHER -> c

\* normalize_path: NFC of the whole string, component by component.
normalize_path(p) == [i \in 1..Len(p) |-> NFC(p[i])]

basename(p) == IF Len(p) = 0 THEN "" ELSE Last(p)
dirname(p) == IF Len(p) = 0 THEN <<>> ELSE Front(p)
join(d, name) == Append(d, name)

SKIPPED_FOLDER == expanduser(<<"~", "Downloads", "Skipped">>)

\* The sentinel destination "DELETE" (a one-component relative path).
DELETE == <<"DELETE">>

\* JSON null, where a path may stand (skipped_to).
None == <<"null">>

----------------------------------------------------------------------------
\* JSON objects (Python dicts).

Get(d, k, default) == IF k \in DOMAIN d THEN d[k] ELSE default
SetKey(d, k, v) == (k :> v) @@ d

\* datetime.utcnow().strftime(...): the stamp of a write made by a handler;
\* documents that no handler has written carry T0.
T0 == "T0"
utcnow == "T1"

----------------------------------------------------------------------------
\* The filesystem: a function from the existing paths to their nodes. The
\* root exists implicitly; a file's content names the file it was created as.

DirNode == [kind |-> "dir", content |-> ""]
FileNode(c) == [kind |-> "file", content |-> c]

\* os.path.exists
exists(f, p) == p \in DOMAIN f
\* os.path.isdir
isdir(f, p) == exists(f, p) /\ f[p].kind = "dir"

Prefixes(d) == {SubSeq(d, 1, k) : k \in 1..Len(d)}
Under(f, p) == {q \in DOMAIN f : IsPrefix(p, q)}

\* The directory a new node at p needs: its parent, unless p is top-level.
ParentOk(f, p) == Len(p) > 0 /\ (Len(p) = 1 \/ isdir(f, dirname(p)))

\* os.makedirs(d, exist_ok=True): nothing to do when d is a directory;
\* raises on the empty path, when a component of d is a file, or when the OS
\* refuses to make a directory (oserr); otherwise every missing component of
\* d becomes a directory.
makedirs(f, d, oserr) ==
    IF isdir(f, d) THEN [ok |-> TRUE, fs |-> f]
    ELSE IF Len(d) = 0 \/ oserr \/ (\E p \in Prefixes(d) : exists(f, p) /\ ~isdir(f, p))
    THEN [ok |-> FALSE, fs |-> f]
    ELSE [ok |-> TRUE,
          fs |-> [p \in DOMAIN f \cup Prefixes(d) |->
                     IF p \in DOMAIN f THEN f[p] ELSE DirNode]]

\* os.rename(src, dst) of a file or a whole tree; a file at dst is replaced.
RenameTree(f, src, dst) ==
    LET moved == Under(f, src)
        To(p) == dst \o SubSeq(p, Len(src) + 1, Len(p))
        kept == (DOMAIN f \ moved) \ Under(f, dst)
        landed == {To(p) : p \in moved}
    IN  [q \in kept \cup landed |->
            IF q \in landed THEN f[CHOOSE p \in moved : To(p) = q] ELSE f[q]]

\* shutil.move(src, dst): into dst when dst is a directory (raising when the
\* name is taken there), else onto dst, silently replacing a file at dst.
\* Raises when the target's parent is missing, when a directory would land
\* on a file or inside itself, or when the OS refuses (oserr).
shutil_move(f, src, dst, oserr) ==
    LET real_dst == IF isdir(f, dst) THEN join(dst, basename(src)) ELSE dst
        raises == \/ oserr
                  \/ ~exists(f, src)
                  \/ isdir(f, dst) /\ exists(f, real_dst)
                  \/ ~ParentOk(f, real_dst)
                  \/ isdir(f, src) /\ exists(f, real_dst)
                  \/ isdir(f, src) /\ IsPrefix(src, real_dst)
    IN  IF raises THEN [ok |-> FALSE, fs |-> f]
        ELSE [ok |-> TRUE, fs |-> RenameTree(f, src, real_dst)]

\* os.remove(p): removes a file; raises on a directory or when the OS refuses.
os_remove(f, p, oserr) ==
    IF oserr \/ ~exists(f, p) \/ isdir(f, p)
    THEN [ok |-> FALSE, fs |-> f]
    ELSE [ok |-> TRUE, fs |-> [q \in DOMAIN f \ {p} |-> f[q]]]

\* shutil.rmtree(p): removes the directory and everything under it.
rmtree(f, p, oserr) ==
    IF oserr \/ ~isdir(f, p)
    THEN [ok |-> FALSE, fs |-> f]
    ELSE [ok |-> TRUE, fs |-> [q \in DOMAIN f \ Under(f, p) |-> f[q]]]

----------------------------------------------------------------------------
\* Documents: the envelope {schema_version, last_updated, files}.

Doc(files, stamp) ==
    [schema_version |-> "1.0", last_updated |-> stamp, files |-> files]

\* A history file that does not exist yet.
NoFile == [missing |-> TRUE]

\* open(HISTORY_FILE) / json.load with the FileNotFoundError fallback: a
\* missing history file reads as a fresh empty document.
LoadHistory(file) ==
    IF "missing" \in DOMAIN file THEN Doc(<<>>, utcnow) ELSE file

\* The entries of a persisted document (none when the file is missing).
FilesOf(file) == IF "missing" \in DOMAIN file THEN <<>> ELSE file.files

\* The ids held by a sequence of entries.
IdsIn(files) == {files[i]["id"] : i \in 1..Len(files)}

\* A search that falls back on the last entry when no entry has the id: the
\* slip of reading the loop variable after a loop that never broke.  C6
\* fails with it.
FindIndex_last(files, id) ==
    IF \E i \in 1..Len(files) : files[i]["id"] = id
    THEN CHOOSE i \in 1..Len(files) :
            /\ files[i]["id"] = id
            /\ \A j \in 1..(i - 1) : files[j]["id"] # id
    ELSE Len(files)

\* The first index whose entry has the id (0: none), as the handlers' loops
\* with break find it.
FindIndex(files, id) ==
    IF \E i \in 1..Len(files) : files[i]["id"] = id
    THEN CHOOSE i \in 1..Len(files) :
            /\ files[i]["id"] = id
            /\ \A j \in 1..(i - 1) : files[j]["id"] # id
    ELSE 0

\* A pop that takes nothing out of the list: the slip of writing the queue
\* back as it was loaded.  C1 fails with it.
Pop_nothing(files, i) == files

\* A pop that takes the entry out but puts the entries after it in front of
\* the entries before it.
Pop_rotates(files, i) == SubSeq(files, i + 1, Len(files)) \o SubSeq(files, 1, i - 1)

\* queue_data['files'].pop(file_index)
Pop(files, i) == SubSeq(files, 1, i - 1) \o SubSeq(files, i + 1, Len(files))

\* [f for f in files if f['id'] not in processed]
RECURSIVE Without(_, _)
Without(files, processed) ==
    IF files = <<>> THEN <<>>
    ELSE IF Head(files)["id"] \in processed
         THEN Without(Tail(files), processed)
         ELSE <<Head(files)>> \o Without(Tail(files), processed)

\* The set of elements of a sequence.
Range(s) == {s[i] : i \in 1..Len(s)}

----------------------------------------------------------------------------
\* The proposals of the model: ids, entries, and the files they name.

\* Ids as the tests write them ("f-1"), and one longer than the 8 characters
\* an error message quotes (a uuid).
ID1 == <<"f", "-", "1">>
ID2 == <<"f", "-", "2">>
ID3 == <<"9", "c", "8", "5", "8", "9", "0", "1", "-", "3">>
Ids == {ID1, ID2, ID3}

\* A missing or empty "id" of a request body (falsy in Python).
NoId == <<>>

\* A move proposal with a home-relative source and no "action" key.
EntryA ==
    [id |-> ID1, source_path |-> <<"~", "in", "a.txt">>,
     dest_path |-> <<"~", "out", "x", "a.txt">>,
     status |-> "pending", confidence |-> 95, reasoning |-> "invoice"]
\* A delete proposal (a duplicate, or an empty folder).
EntryB ==
    [id |-> ID2, source_path |-> <<"~", "in", "b">>,
     dest_path |-> DELETE, action |-> "delete",
     status |-> "pending", confidence |-> 100, reasoning |-> "duplicate"]
\* A move proposal whose source is spelled decomposed, with the base name and
\* the destination of EntryA.
EntryC ==
    [id |-> ID3, source_path |-> <<"in2", "a_nfd.txt">>,
     dest_path |-> <<"home", "out", "x", "a.txt">>, action |-> "move",
     status |-> "pending", confidence |-> 35, reasoning |-> "unknown"]
Catalogue == {EntryA, EntryB, EntryC}

SrcA == <<"home", "in", "a.txt">>
SrcB == <<"home", "in", "b">>
SrcC == <<"in2", "a.txt">>
DestX == <<"home", "out", "x", "a.txt">>

\* A function given as a set of <<path, node>> pairs.
FsOf(pairs) ==
    [p \in {pr[1] : pr \in pairs} |-> (CHOOSE pr \in pairs : pr[1] = p)[2]]

\* The filesystem a run starts from: each source present or already gone
\* (EntryB's a file or a directory with a file in it), and the destination
\* free or taken.
InitialFs(a, b, c, d) ==
    FsOf({<<HOME, DirNode>>, <<<<"home", "in">>, DirNode>>, <<<<"in2">>, DirNode>>}
         \cup (IF a THEN {<<SrcA, FileNode("a")>>} ELSE {})
         \cup (CASE b = "file" -> {<<SrcB, FileNode("b")>>}
                 [] b = "dir" -> {<<SrcB, DirNode>>,
                                  <<join(SrcB, "n.txt"), FileNode("n")>>}
                 [] OTHER -> {})
         \cup (IF c THEN {<<SrcC, FileNode("c")>>} ELSE {})
         \cup (IF d THEN {<<<<"home", "out">>, DirNode>>,
                          <<<<"home", "out", "x">>, DirNode>>,
                          <<DestX, FileNode("x")>>}
               ELSE {}))

\* The queues a run starts from, in the producer's order: every proposal of
\* the catalogue, or all but the last.
InitialQueues == {<<EntryA, EntryB, EntryC>>, <<EntryA, EntryB>>}

----------------------------------------------------------------------------
\* Responses.

NoRef == [what |-> "none", val |-> <<>>]
Ref(what, val) == [what |-> what, val |-> val]

\* A success message: its wording and the name or path it quotes.
NoMessage == [text |-> "none", ref |-> NoRef]
Message(text, ref) == [text |-> text, ref |-> ref]

\* No response sent (yet).
NoResp ==
    [code |-> 0, success |-> FALSE, error |-> "none", ref |-> NoRef,
     count_key |-> "none", count |-> 0, message |-> NoMessage]

\* send_json_error(status_code, message): {'success': False, 'error': message}
send_json_error(code, error, ref) ==
    [code |-> code, success |-> FALSE, error |-> error, ref |-> ref,
     count_key |-> "none", count |-> 0, message |-> NoMessage]

\* The 200 response {'success': False, 'error': ...} of a soft failure.
SoftFailure(error, ref) == send_json_error(200, error, ref)

\* _send_bulk_error(error, processed_count, action): a 200 response with
\* success False, the error and the count under moved_count or skipped_count.
send_bulk_error(error, ref, processed_count, action) ==
    [code |-> 200, success |-> FALSE, error |-> error, ref |-> ref,
     count_key |-> IF action = "move" THEN "moved_count" ELSE "skipped_count",
     count |-> processed_count, message |-> NoMessage]

\* The 200 response {'success': True, 'message': ...}.
Success(msg) ==
    [code |-> 200, success |-> TRUE, error |-> "none", ref |-> NoRef,
     count_key |-> "none", count |-> 0, message |-> msg]

\* The 200 response of a completed bulk request; the message says "file"
\* for one and "files" otherwise.
BulkSuccess(verb, count_key, n) ==
    [code |-> 200, success |-> TRUE, error |-> "none", ref |-> NoRef,
     count_key |-> count_key, count |-> n,
     message |-> Message(verb, Ref("plural", n # 1))]

\* file_id[:8]
IdPrefixLen == 8
IdPrefix(file_id) ==
    SubSeq(file_id, 1, IF Len(file_id) < IdPrefixLen THEN Len(file_id) ELSE IdPrefixLen)

----------------------------------------------------------------------------
\* The state after the server starts: a queue written by the producer, no
\* history files yet, no request in hand.

NoReq ==
    [op |-> "none", id |-> NoId, ids |-> <<>>, status |-> "", files |-> <<>>,
     has_files |-> TRUE]
Snapshot == [queue |-> queueFile, history |-> historyFile,
             skip |-> skipHistoryFile, fs |-> fs]
\* What pre holds while no request is in hand.
NoSnapshot == [queue |-> NoFile, history |-> NoFile, skip |-> NoFile, fs |-> <<>>]

\* No call of atomic_write_json and no read is followed step by step.
NoWriter ==
    [pc |-> "idle", calls |-> 0, data |-> NoFile, temp_path |-> "",
     written |-> 0, before |-> NoFile]
NoReader ==
    [pc |-> "idle", ino |-> 0, buf |-> <<>>, expect |-> NoFile, seen |-> NoFile]

Init ==
    /\ queueFile \in {Doc(q, T0) : q \in InitialQueues}
    /\ historyFile = NoFile
    /\ skipHistoryFile = NoFile
    /\ fs \in {InitialFs(TRUE, b, TRUE, d) :
                 b \in {"none", "file", "dir"}, d \in BOOLEAN}
    /\ pc = "idle"
    /\ req = NoReq
    /\ queue_data = Doc(<<>>, T0)
    /\ history_data = Doc(<<>>, T0)
    /\ file_index = 0
    /\ idx = 0
    /\ processed_ids = <<>>
    /\ count = 0
    /\ message = NoMessage
    /\ resp = NoResp
    /\ pre = NoSnapshot
    /\ served = 0
    /\ state_dir = <<>>
    /\ inodes = <<>>
    /\ writer = NoWriter
    /\ reader = NoReader
    /\ produced = {}

\* A request is read off the socket: the server handles one at a time.
Accept(r) ==
    /\ pc = "idle"
    /\ served < MaxRequests
    /\ served' = served + 1
    /\ req' = r
    /\ pre' = Snapshot
    /\ UNCHANGED others

\* The handler sends this response and returns.
Return(r) ==
    /\ pc' = "done"
    /\ resp' = r

ClearLocals ==
    /\ queue_data' = Doc(<<>>, T0)
    /\ history_data' = Doc(<<>>, T0)
    /\ file_index' = 0
    /\ idx' = 0
    /\ processed_ids' = <<>>
    /\ count' = 0
    /\ message' = NoMessage

\* The statuses a client sends: a user's annotation, and a value outside
\* the enumeration; "" is a missing status.
StatusInputs == {"rejected", "archived", ""}

\* strftime of the moment of the write.
Stamp(doc) == [doc EXCEPT !.last_updated = utcnow]

----------------------------------------------------------------------------
\* POST /api/update-status

\* UpdateStatus, but the status is set on every entry of the queue.
UpdateStatus_all(file_id, new_status, wfail) ==
    LET i == FindIndex(queueFile.files, file_id)
        written == Stamp([queueFile EXCEPT
                            !.files = [k \in 1..Len(@) |->
                                          SetKey(@[k], "status", new_status)]])
    IN  /\ Accept([NoReq EXCEPT !.op = "update_status", !.id = file_id,
                                !.status = new_status])
        /\ ClearLocals
        /\ UNCHANGED <<historyFile, skipHistoryFile, fs>>
        /\ IF file_id = NoId \/ new_status = ""
           THEN /\ Return(send_json_error(400, "Missing id or status", NoRef))
                /\ UNCHANGED queueFile
           ELSE IF i = 0
           THEN /\ Return(send_json_error(404, "File not found", NoRef))
                /\ UNCHANGED queueFile
           ELSE IF wfail
           THEN /\ Return(send_json_error(500, "exception", NoRef))
                /\ UNCHANGED queueFile
           ELSE /\ Return(Success(NoMessage))
                /\ queueFile' = written

UpdateStatus(file_id, new_status, wfail) ==
    LET i == FindIndex(queueFile.files, file_id)
        written == Stamp([queueFile EXCEPT
                            !.files[i] = SetKey(@, "status", new_status)])
    IN  /\ Accept([NoReq EXCEPT !.op = "update_status", !.id = file_id,
                                !.status = new_status])
        /\ ClearLocals
        /\ UNCHANGED <<historyFile, skipHistoryFile, fs>>
        /\ IF file_id = NoId \/ new_status = ""
           THEN /\ Return(send_json_error(400, "Missing id or status", NoRef))
                /\ UNCHANGED queueFile
           ELSE IF i = 0
           THEN /\ Return(send_json_error(404, "File not found", NoRef))
                /\ UNCHANGED queueFile
           ELSE IF wfail
           THEN /\ Return(send_json_error(500, "exception", NoRef))
                /\ UNCHANGED queueFile
           ELSE /\ Return(Success(NoMessage))
                /\ queueFile' = written

----------------------------------------------------------------------------
\* POST /api/update-queue

\* The lists a client sends: one proposal, two reordered, and one proposal
\* twice.
ReplaceInputs ==
    {<<EntryA>>, <<EntryC, EntryA>>, <<EntryA, EntryA>>}

\* ReplaceQueueFiles, but the list is added to the entries already there.
ReplaceQueueFiles_adds(has_files, files, wfail) ==
    /\ ~has_files => files = <<EntryA>>
    /\ Accept([NoReq EXCEPT !.op = "update_queue", !.files = files,
                            !.has_files = has_files])
    /\ ClearLocals
    /\ UNCHANGED <<historyFile, skipHistoryFile, fs>>
    /\ IF ~has_files
       THEN /\ Return(send_json_error(400, "Missing files array", NoRef))
            /\ UNCHANGED queueFile
       ELSE IF wfail
       THEN /\ Return(send_json_error(500, "exception", NoRef))
            /\ UNCHANGED queueFile
       ELSE /\ Return(Success(NoMessage))
            /\ queueFile' = Stamp([queueFile EXCEPT !.files = @ \o files])

ReplaceQueueFiles(has_files, files, wfail) ==
    /\ ~has_files => files = <<EntryA>>
    /\ Accept([NoReq EXCEPT !.op = "update_queue", !.files = files,
                            !.has_files = has_files])
    /\ ClearLocals
    /\ UNCHANGED <<historyFile, skipHistoryFile, fs>>
    /\ IF ~has_files
       THEN /\ Return(send_json_error(400, "Missing files array", NoRef))
            /\ UNCHANGED queueFile
       ELSE IF wfail
       THEN /\ Return(send_json_error(500, "exception", NoRef))
            /\ UNCHANGED queueFile
       ELSE /\ Return(Success(NoMessage))
            /\ queueFile' = Stamp([queueFile EXCEPT !.files = files])

----------------------------------------------------------------------------
\* The parts the handlers share.

\* LoadAndFind, but a request without an id is looked up like any other.
LoadAndFind_unchecked(op, file_id, next_pc) ==
    LET i == FindIndex(queueFile.files, file_id)
    IN  /\ Accept([NoReq EXCEPT !.op = op, !.id = file_id])
        /\ UNCHANGED <<stores, fs>>
        /\ IF i = 0
           THEN /\ Return(send_json_error(404, "File not found in queue", NoRef))
                /\ ClearLocals
           ELSE /\ pc' = next_pc
                /\ resp' = NoResp
                /\ queue_data' = queueFile
                /\ file_index' = i

\* The queue is loaded and the entry looked up by id (lines 140-155, 311-326).
LoadAndFind(op, file_id, next_pc) ==
    LET i == FindIndex(queueFile.files, file_id)
    IN  /\ Accept([NoReq EXCEPT !.op = op, !.id = file_id])
        /\ UNCHANGED <<stores, fs>>
        /\ IF file_id = NoId
           THEN /\ Return(send_json_error(400, "Missing file id", NoRef))
                /\ ClearLocals
           ELSE IF i = 0
           THEN /\ Return(send_json_error(404, "File not found in queue", NoRef))
                /\ ClearLocals
           ELSE /\ pc' = next_pc
                /\ resp' = NoResp
                /\ queue_data' = queueFile
                /\ file_index' = i
                /\ history_data' = Doc(<<>>, T0)
                /\ idx' = 0
                /\ processed_ids' = <<>>
                /\ count' = 0
                /\ message' = NoMessage

\* The entry's paths as the handlers resolve them.
SourcePath(file_entry) == normalize_path(expanduser(file_entry["source_path"]))
DestPath(file_entry) == expanduser(file_entry["dest_path"])
\* IsDelete, but a proposal the user has rejected is never carried out as a
\* delete.
IsDelete_unrejected(file_entry) ==
    /\ DestPath(file_entry) = DELETE \/ Get(file_entry, "action", "move") = "delete"
    /\ Get(file_entry, "status", "pending") # "rejected"

\* IsDelete, but only the DELETE sentinel marks a delete proposal.
IsDelete_sentinel(file_entry) == DestPath(file_entry) = DELETE

IsDelete(file_entry) ==
    DestPath(file_entry) = DELETE \/ Get(file_entry, "action", "move") = "delete"

\* A no-clobber check that never finds the destination taken.  C5 fails
\* with it.
DestinationTaken_never(f, dest_path) == FALSE

\* os.path.exists(dest_path): the no-clobber check before a move.
DestinationTaken(f, dest_path) == exists(f, dest_path)

\* A loop that walks the ids from the last to the first.  C3 fails with it.
CurrentId_reversed == req.ids[Len(req.ids) + 1 - idx]

\* for file_id in file_ids: the id of the current turn of the bulk loop.
CurrentId == req.ids[idx]

\* MarkMoved, but the entry gets no moved_at stamp.
MarkMoved_unstamped(file_entry) == SetKey(file_entry, "status", "moved")

\* file_entry['status'] = 'moved'; file_entry['moved_at'] = now
MarkMoved(file_entry) ==
    SetKey(SetKey(file_entry, "status", "moved"), "moved_at", utcnow)

\* MarkSkipped, but the snapshot's confidence is reset.
MarkSkipped_resets(file_entry, skipped_to) ==
    SetKey(SetKey(SetKey(SetKey(file_entry, "skipped_to", skipped_to),
                         "status", "skipped"), "skipped_at", utcnow),
           "confidence", 0)

\* file_entry['skipped_to'] = ...; ['status'] = 'skipped'; ['skipped_at'] = now
MarkSkipped(file_entry, skipped_to) ==
    SetKey(SetKey(SetKey(file_entry, "skipped_to", skipped_to),
                  "status", "skipped"), "skipped_at", utcnow)

\* AppendTo, but the entry is put in front of the ones already there.
AppendTo_front(doc, entry) == Stamp([doc EXCEPT !.files = <<entry>> \o @])

\* history_data['files'].append(entry); history_data['last_updated'] = now
AppendTo(doc, entry) == Stamp([doc EXCEPT !.files = Append(@, entry)])

----------------------------------------------------------------------------
\* POST /api/move-file

MoveBegin(file_id) == LoadAndFind("move", file_id, "move_check")

\* Lines 157-208: the source check, then the delete, or the destination's
\* directories and the no-clobber check.
MoveCheck(oserr) ==
    LET file_entry == queue_data.files[file_index]
        source_path == SourcePath(file_entry)
        dest_path == DestPath(file_entry)
        deleted == IF isdir(fs, source_path)
                   THEN rmtree(fs, source_path, oserr)
                   ELSE os_remove(fs, source_path, oserr)
        made == makedirs(fs, dirname(dest_path), oserr)
    IN  /\ pc = "move_check"
        /\ UNCHANGED <<stores, req, pre, served, others, queue_data, history_data,
                       file_index, idx, processed_ids, count>>
        /\ IF ~exists(fs, source_path)
           THEN /\ Return(SoftFailure("Source file not found", Ref("path", source_path)))
                /\ UNCHANGED <<fs, message>>
           ELSE IF IsDelete(file_entry)
           THEN IF deleted.ok
                THEN /\ fs' = deleted.fs
                     /\ pc' = "move_history"
                     /\ message' = Message(IF isdir(fs, source_path)
                                           THEN "Deleted directory" ELSE "Deleted file",
                                           Ref("basename", basename(source_path)))
                     /\ UNCHANGED resp
                ELSE /\ Return(SoftFailure("Failed to delete", Ref("exception", <<>>)))
                     /\ UNCHANGED <<fs, message>>
           ELSE IF ~made.ok
           THEN /\ Return(send_json_error(500, "exception", NoRef))
                /\ UNCHANGED <<fs, message>>
           ELSE IF DestinationTaken(made.fs, dest_path)
           THEN /\ Return(SoftFailure("Destination file already exists",
                                      Ref("path", dest_path)))
                /\ fs' = made.fs
                /\ UNCHANGED message
           ELSE /\ fs' = made.fs
                /\ pc' = "move_move"
                /\ UNCHANGED <<resp, message>>

\* A move step that records a failed move in the queue file.  C4 fails
\* with it.
MoveMove_records(oserr) ==
    LET file_entry == queue_data.files[file_index]
        source_path == SourcePath(file_entry)
        dest_path == DestPath(file_entry)
        moved == shutil_move(fs, source_path, dest_path, oserr)
    IN  /\ pc = "move_move"
        /\ UNCHANGED <<historyFile, skipHistoryFile, req, pre, served, others,
                       queue_data, history_data, file_index, idx,
                       processed_ids, count>>
        /\ IF moved.ok
           THEN /\ fs' = moved.fs
                /\ pc' = "move_history"
                /\ message' = Message("Moved", Ref("path", dest_path))
                /\ UNCHANGED <<resp, queueFile>>
           ELSE /\ Return(SoftFailure("Failed to move file", Ref("exception", <<>>)))
                /\ queueFile' = Stamp([queue_data EXCEPT !.files[file_index] =
                                          SetKey(file_entry, "status", "failed")])
                /\ UNCHANGED <<fs, message>>

\* Lines 210-223: shutil.move(source_path, dest_path).
MoveMove(oserr) ==
    LET file_entry == queue_data.files[file_index]
        source_path == SourcePath(file_entry)
        dest_path == DestPath(file_entry)
        moved == shutil_move(fs, source_path, dest_path, oserr)
    IN  /\ pc = "move_move"
        /\ UNCHANGED <<stores, req, pre, served, others, queue_data, history_data,
                       file_index, idx, processed_ids, count>>
        /\ IF moved.ok
           THEN /\ fs' = moved.fs
                /\ pc' = "move_history"
                /\ message' = Message("Moved", Ref("path", dest_path))
                /\ UNCHANGED resp
           ELSE /\ Return(SoftFailure("Failed to move file", Ref("exception", <<>>)))
                /\ UNCHANGED <<fs, message>>

\* Lines 225-244: the entry is marked moved, appended to the history loaded
\* from disk, and the history is written.
MoveHistory(wfail) ==
    LET file_entry == MarkMoved(queue_data.files[file_index])
        loaded == LoadHistory(historyFile)
    IN  /\ pc = "move_history"
        /\ UNCHANGED <<queueFile, skipHistoryFile, fs, req, pre, served, others,
                       file_index, idx, processed_ids, count, message>>
        /\ queue_data' = [queue_data EXCEPT !.files[file_index] = file_entry]
        /\ history_data' = AppendTo(loaded, file_entry)
        /\ IF wfail
           THEN /\ Return(send_json_error(500, "exception", NoRef))
                /\ UNCHANGED historyFile
           ELSE /\ historyFile' = history_data'
                /\ pc' = "move_queue"
                /\ UNCHANGED resp

\* MoveQueue, but the queue is loaded again just before the entry is popped.
MoveQueue_reloads(wfail) ==
    LET popped == Stamp([queueFile EXCEPT !.files = Pop(@, file_index)])
    IN  /\ pc = "move_queue"
        /\ UNCHANGED <<historyFile, skipHistoryFile, fs, req, pre, served, others,
                       history_data, file_index, idx, processed_ids, count,
                       message>>
        /\ queue_data' = popped
        /\ IF wfail
           THEN /\ Return(send_json_error(500, "exception", NoRef))
                /\ UNCHANGED queueFile
           ELSE /\ queueFile' = popped
                /\ Return(Success(message))

\* Lines 246-261: the entry is popped and the queue is written.
MoveQueue(wfail) ==
    LET popped == Stamp([queue_data EXCEPT !.files = Pop(@, file_index)])
    IN  /\ pc = "move_queue"
        /\ UNCHANGED <<historyFile, skipHistoryFile, fs, req, pre, served, others,
                       history_data, file_index, idx, processed_ids, count,
                       message>>
        /\ queue_data' = popped
        /\ IF wfail
           THEN /\ Return(send_json_error(500, "exception", NoRef))
                /\ UNCHANGED queueFile
           ELSE /\ queueFile' = popped
                /\ Return(Success(message))

----------------------------------------------------------------------------
\* POST /api/skip-file

SkipBegin(file_id) == LoadAndFind("skip", file_id, "skip_file")

\* SkipFile, but an exception of shutil.move is swallowed: the entry is
\* recorded as skipped with no holding path and the handler goes on.
SkipFile_swallows(mkerr, mverr) ==
    LET file_entry == queue_data.files[file_index]
        source_path == SourcePath(file_entry)
        made == makedirs(fs, SKIPPED_FOLDER, mkerr)
        skipped_path == join(SKIPPED_FOLDER, basename(source_path))
        moved == shutil_move(made.fs, source_path, skipped_path, mverr)
    IN  /\ pc = "skip_file"
        /\ UNCHANGED <<stores, req, pre, served, others, history_data, file_index,
                       idx, processed_ids, count, message>>
        /\ IF ~made.ok
           THEN /\ Return(send_json_error(500, "exception", NoRef))
                /\ UNCHANGED <<fs, queue_data>>
           ELSE IF ~exists(made.fs, source_path) \/ ~moved.ok
           THEN /\ fs' = made.fs
                /\ queue_data' = [queue_data EXCEPT
                                    !.files[file_index] = MarkSkipped(file_entry, None)]
                /\ pc' = "skip_history"
                /\ UNCHANGED resp
           ELSE /\ fs' = moved.fs
                /\ queue_data' = [queue_data EXCEPT
                                    !.files[file_index] = MarkSkipped(file_entry, skipped_path)]
                /\ pc' = "skip_history"
                /\ UNCHANGED resp

\* SkipFile, but the entry is only recorded: the source stays where it is.
SkipFile_records(mkerr, mverr) ==
    LET file_entry == queue_data.files[file_index]
        source_path == SourcePath(file_entry)
        made == makedirs(fs, SKIPPED_FOLDER, mkerr)
        skipped_path == join(SKIPPED_FOLDER, basename(source_path))
    IN  /\ pc = "skip_file"
        /\ UNCHANGED <<stores, req, pre, served, others, history_data, file_index,
                       idx, processed_ids, count, message>>
        /\ IF ~made.ok \/ mverr
           THEN /\ Return(send_json_error(500, "exception", NoRef))
                /\ UNCHANGED <<fs, queue_data>>
           ELSE /\ fs' = made.fs
                /\ queue_data' = [queue_data EXCEPT !.files[file_index] =
                                     MarkSkipped(file_entry,
                                        IF exists(made.fs, source_path)
                                        THEN skipped_path ELSE None)]
                /\ pc' = "skip_history"
                /\ UNCHANGED resp

\* SkipFile, but a source that is gone is refused as move-file refuses it.
SkipFile_strict(mkerr, mverr) ==
    LET file_entry == queue_data.files[file_index]
        source_path == SourcePath(file_entry)
        made == makedirs(fs, SKIPPED_FOLDER, mkerr)
        skipped_path == join(SKIPPED_FOLDER, basename(source_path))
        moved == shutil_move(made.fs, source_path, skipped_path, mverr)
    IN  /\ pc = "skip_file"
        /\ UNCHANGED <<stores, req, pre, served, others, history_data, file_index,
                       idx, processed_ids, count, message>>
        /\ IF ~made.ok
           THEN /\ Return(send_json_error(500, "exception", NoRef))
                /\ UNCHANGED <<fs, queue_data>>
           ELSE IF ~exists(made.fs, source_path)
           THEN /\ Return(SoftFailure("Source file not found", Ref("path", source_path)))
                /\ fs' = made.fs
                /\ UNCHANGED queue_data
           ELSE IF moved.ok
           THEN /\ fs' = moved.fs
                /\ queue_data' = [queue_data EXCEPT
                                    !.files[file_index] = MarkSkipped(file_entry, skipped_path)]
                /\ pc' = "skip_history"
                /\ UNCHANGED resp
           ELSE /\ Return(send_json_error(500, "exception", NoRef))
                /\ fs' = made.fs
                /\ UNCHANGED queue_data

\* Lines 328-340: the holding directory is made, the source is moved into it
\* when it still exists, and the entry is marked skipped.
SkipFile(mkerr, mverr) ==
    LET file_entry == queue_data.files[file_index]
        source_path == SourcePath(file_entry)
        made == makedirs(fs, SKIPPED_FOLDER, mkerr)
        skipped_path == join(SKIPPED_FOLDER, basename(source_path))
        moved == shutil_move(made.fs, source_path, skipped_path, mverr)
    IN  /\ pc = "skip_file"
        /\ UNCHANGED <<stores, req, pre, served, others, history_data, file_index,
                       idx, processed_ids, count, message>>
        /\ IF ~made.ok
           THEN /\ Return(send_json_error(500, "exception", NoRef))
                /\ UNCHANGED <<fs, queue_data>>
           ELSE IF ~exists(made.fs, source_path)
           THEN /\ fs' = made.fs
                /\ queue_data' = [queue_data EXCEPT
                                    !.files[file_index] = MarkSkipped(file_entry, None)]
                /\ pc' = "skip_history"
                /\ UNCHANGED resp
           ELSE IF moved.ok
           THEN /\ fs' = moved.fs
                /\ queue_data' = [queue_data EXCEPT
                                    !.files[file_index] = MarkSkipped(file_entry, skipped_path)]
                /\ pc' = "skip_history"
                /\ UNCHANGED resp
           ELSE /\ Return(send_json_error(500, "exception", NoRef))
                /\ fs' = made.fs
                /\ UNCHANGED queue_data

\* SkipHistory, but what is written at this point is the queue without the
\* entry; the skip history is left for later.
SkipHistory_queuefirst(wfail) ==
    LET loaded == LoadHistory(skipHistoryFile)
    IN  /\ pc = "skip_history"
        /\ UNCHANGED <<skipHistoryFile, historyFile, fs, req, pre, served, others,
                       queue_data, file_index, idx, processed_ids, count, message>>
        /\ history_data' = AppendTo(loaded, queue_data.files[file_index])
        /\ IF wfail
           THEN /\ Return(send_json_error(500, "exception", NoRef))
                /\ UNCHANGED queueFile
           ELSE /\ queueFile' = Stamp([queue_data EXCEPT !.files = Pop(@, file_index)])
                /\ pc' = "skip_queue"
                /\ UNCHANGED resp

\* Lines 342-357: the entry is appended to the skip history loaded from disk,
\* and the skip history is written.
SkipHistory(wfail) ==
    LET loaded == LoadHistory(skipHistoryFile)
    IN  /\ pc = "skip_history"
        /\ UNCHANGED <<queueFile, historyFile, fs, req, pre, served, others, queue_data,
                       file_index, idx, processed_ids, count, message>>
        /\ history_data' = AppendTo(loaded, queue_data.files[file_index])
        /\ IF wfail
           THEN /\ Return(send_json_error(500, "exception", NoRef))
                /\ UNCHANGED skipHistoryFile
           ELSE /\ skipHistoryFile' = history_data'
                /\ pc' = "skip_queue"
                /\ UNCHANGED resp

\* Lines 359-374: the entry is popped and the queue is written.
SkipQueue(wfail) ==
    LET popped == Stamp([queue_data EXCEPT !.files = Pop(@, file_index)])
        name == basename(queue_data.files[file_index]["source_path"])
    IN  /\ pc = "skip_queue"
        /\ UNCHANGED <<historyFile, skipHistoryFile, fs, req, pre, served, others,
                       history_data, file_index, idx, processed_ids, count>>
        /\ queue_data' = popped
        /\ message' = Message("Skipped", Ref("basename", name))
        /\ IF wfail
           THEN /\ Return(send_json_error(500, "exception", NoRef))
                /\ UNCHANGED queueFile
           ELSE /\ queueFile' = popped
                /\ Return(Success(message'))

----------------------------------------------------------------------------
\* POST /api/bulk-move and /api/bulk-skip

\* The id lists a client sends; the empty list is also what a body without
\* "ids" reads as.
BulkInputs == UNION {[1..n -> Ids] : n \in 0..MaxBulk}

\* Lines 383-407 and 486-510: the queue and the history are loaded once.
BulkBegin(op, file_ids, history_file, next_pc) ==
    /\ Accept([NoReq EXCEPT !.op = op, !.ids = file_ids])
    /\ UNCHANGED <<stores, fs>>
    /\ IF file_ids = <<>>
       THEN /\ Return(send_json_error(400, "Missing file ids", NoRef))
            /\ ClearLocals
       ELSE /\ pc' = next_pc
            /\ resp' = NoResp
            /\ queue_data' = queueFile
            /\ history_data' = LoadHistory(history_file)
            /\ file_index' = 0
            /\ idx' = 1
            /\ processed_ids' = <<>>
            /\ count' = 0
            /\ message' = NoMessage

\* A turn of the loop that forgets to note the id as processed, so that the
\* final filter keeps the entry in the queue.  C11 fails with it.
BulkProcessed_unlisted(i, marked, item_pc, write_pc) ==
    /\ queue_data' = [queue_data EXCEPT !.files[i] = marked]
    /\ history_data' = [history_data EXCEPT !.files = Append(@, marked)]
    /\ processed_ids' = processed_ids
    /\ count' = count + 1
    /\ idx' = idx + 1
    /\ pc' = IF idx + 1 > Len(req.ids) THEN write_pc ELSE item_pc
    /\ UNCHANGED resp

\* The end of one turn of the loop: the entry at i, as marked, is copied to
\* the history in memory and counted; after the last id the writes follow.
BulkProcessed(i, marked, item_pc, write_pc) ==
    /\ queue_data' = [queue_data EXCEPT !.files[i] = marked]
    /\ history_data' = [history_data EXCEPT !.files = Append(@, marked)]
    /\ processed_ids' = Append(processed_ids, CurrentId)
    /\ count' = count + 1
    /\ idx' = idx + 1
    /\ pc' = IF idx + 1 > Len(req.ids) THEN write_pc ELSE item_pc
    /\ UNCHANGED resp

\* Lines 461-467 and 542-548, first write: the processed entries are
\* filtered out and the queue is written.
BulkWriteQueue(at_pc, next_pc, wfail) ==
    LET filtered == Stamp([queue_data EXCEPT
                             !.files = Without(@, Range(processed_ids))])
    IN  /\ pc = at_pc
        /\ UNCHANGED <<historyFile, skipHistoryFile, fs, req, pre, served, others,
                       file_index, idx, processed_ids, count, message>>
        /\ queue_data' = filtered
        /\ history_data' = Stamp(history_data)
        /\ IF wfail
           THEN /\ Return(send_json_error(500, "exception", NoRef))
                /\ UNCHANGED queueFile
           ELSE /\ queueFile' = filtered
                /\ pc' = next_pc
                /\ UNCHANGED resp

BulkMoveBegin(file_ids) ==
    BulkBegin("bulk_move", file_ids, historyFile, "bulk_move_item")

\* Lines 409-444 and, for a delete, 447-452: the entry is looked up in the
\* queue in memory and its source checked; a delete is carried out with
\* os.remove; for a move the directories are made and the destination checked.
BulkMoveItem(oserr) ==
    LET file_id == CurrentId
        i == FindIndex(queue_data.files, file_id)
        file_entry == queue_data.files[i]
        source_path == SourcePath(file_entry)
        dest_path == DestPath(file_entry)
        removed == os_remove(fs, source_path, oserr)
        made == makedirs(fs, dirname(dest_path), oserr)
        failed == send_bulk_error("Failed to move",
                                  Ref("basename", basename(source_path)), count, "move")
    IN  /\ pc = "bulk_move_item"
        /\ UNCHANGED <<stores, req, pre, served, others, message>>
        /\ IF i = 0
           THEN /\ Return(send_bulk_error("File not found in queue",
                                          Ref("id_prefix", IdPrefix(file_id)),
                                          count, "move"))
                /\ UNCHANGED <<fs, locals>>
           ELSE IF ~exists(fs, source_path)
           THEN /\ Return(send_bulk_error("Source file not found",
                                          Ref("basename", basename(source_path)),
                                          count, "move"))
                /\ UNCHANGED <<fs, locals>>
           ELSE IF IsDelete(file_entry)
           THEN IF removed.ok
                THEN /\ fs' = removed.fs
                     /\ file_index' = i
                     /\ BulkProcessed(i, MarkMoved(file_entry),
                                      "bulk_move_item", "bulk_move_write_queue")
                ELSE /\ Return(failed)
                     /\ UNCHANGED <<fs, locals>>
           ELSE IF ~made.ok
           THEN /\ Return(failed)
                /\ UNCHANGED <<fs, locals>>
           ELSE IF DestinationTaken(made.fs, dest_path)
           THEN /\ Return(send_bulk_error("Destination already exists",
                                          Ref("basename", basename(dest_path)),
                                          count, "move"))
                /\ fs' = made.fs
                /\ UNCHANGED locals
           ELSE /\ fs' = made.fs
                /\ pc' = "bulk_move_move"
                /\ file_index' = i
                /\ UNCHANGED <<resp, queue_data, history_data, idx,
                               processed_ids, count>>

\* Lines 445-459: shutil.move, then the entry is marked moved and counted.
BulkMoveMove(oserr) ==
    LET file_entry == queue_data.files[file_index]
        source_path == SourcePath(file_entry)
        dest_path == DestPath(file_entry)
        moved == shutil_move(fs, source_path, dest_path, oserr)
    IN  /\ pc = "bulk_move_move"
        /\ UNCHANGED <<stores, req, pre, served, others, message, file_index>>
        /\ IF moved.ok
           THEN /\ fs' = moved.fs
                /\ BulkProcessed(file_index, MarkMoved(file_entry),
                                 "bulk_move_item", "bulk_move_write_queue")
           ELSE /\ Return(send_bulk_error("Failed to move",
                                          Ref("basename", basename(source_path)),
                                          count, "move"))
                /\ UNCHANGED <<fs, queue_data, history_data, idx,
                               processed_ids, count>>

BulkMoveWriteQueue(wfail) ==
    BulkWriteQueue("bulk_move_write_queue", "bulk_move_write_history", wfail)

\* Lines 467-477: the move history is written and success reported.
BulkMoveWriteHistory(wfail) ==
    /\ pc = "bulk_move_write_history"
    /\ UNCHANGED <<queueFile, skipHistoryFile, fs, req, pre, served, others, locals>>
    /\ IF wfail
       THEN /\ Return(send_json_error(500, "exception", NoRef))
            /\ UNCHANGED historyFile
       ELSE /\ historyFile' = history_data
            /\ Return(BulkSuccess("Successfully moved", "moved_count", count))

BulkSkipBegin(file_ids) ==
    BulkBegin("bulk_skip", file_ids, skipHistoryFile, "bulk_skip_item")

\* BulkSkipItem, but the entry is only recorded: the source stays where it is.
BulkSkipItem_records(mkerr, mverr) ==
    LET file_id == CurrentId
        i == FindIndex(queue_data.files, file_id)
        file_entry == queue_data.files[i]
        source_path == SourcePath(file_entry)
        made == makedirs(fs, SKIPPED_FOLDER, mkerr)
        skipped_path == join(SKIPPED_FOLDER, basename(source_path))
    IN  /\ pc = "bulk_skip_item"
        /\ UNCHANGED <<stores, req, pre, served, others, message>>
        /\ IF i = 0
           THEN /\ Return(send_bulk_error("File not found in queue",
                                          Ref("id_prefix", IdPrefix(file_id)),
                                          count, "skip"))
                /\ UNCHANGED <<fs, locals>>
           ELSE IF ~made.ok \/ mverr
           THEN /\ Return(send_json_error(500, "exception", NoRef))
                /\ UNCHANGED <<fs, locals>>
           ELSE /\ fs' = made.fs
                /\ file_index' = i
                /\ BulkProcessed(i, MarkSkipped(file_entry,
                                       IF exists(made.fs, source_path)
                                       THEN skipped_path ELSE None),
                                 "bulk_skip_item", "bulk_skip_write_queue")

\* Lines 512-540: the entry is looked up in the queue in memory, its source
\* is moved into the holding directory when it still exists, and the entry
\* is marked skipped and counted.
BulkSkipItem(mkerr, mverr) ==
    LET file_id == CurrentId
        i == FindIndex(queue_data.files, file_id)
        file_entry == queue_data.files[i]
        source_path == SourcePath(file_entry)
        made == makedirs(fs, SKIPPED_FOLDER, mkerr)
        skipped_path == join(SKIPPED_FOLDER, basename(source_path))
        moved == shutil_move(made.fs, source_path, skipped_path, mverr)
    IN  /\ pc = "bulk_skip_item"
        /\ UNCHANGED <<stores, req, pre, served, others, message>>
        /\ IF i = 0
           THEN /\ Return(send_bulk_error("File not found in queue",
                                          Ref("id_prefix", IdPrefix(file_id)),
                                          count, "skip"))
                /\ UNCHANGED <<fs, locals>>
           ELSE IF ~made.ok
           THEN /\ Return(send_json_error(500, "exception", NoRef))
                /\ UNCHANGED <<fs, locals>>
           ELSE IF ~exists(made.fs, source_path)
           THEN /\ fs' = made.fs
                /\ file_index' = i
                /\ BulkProcessed(i, MarkSkipped(file_entry, None),
                                 "bulk_skip_item", "bulk_skip_write_queue")
           ELSE IF moved.ok
           THEN /\ fs' = moved.fs
                /\ file_index' = i
                /\ BulkProcessed(i, MarkSkipped(file_entry, skipped_path),
                                 "bulk_skip_item", "bulk_skip_write_queue")
           ELSE /\ Return(send_json_error(500, "exception", NoRef))
                /\ fs' = made.fs
                /\ UNCHANGED locals

BulkSkipWriteQueue(wfail) ==
    BulkWriteQueue("bulk_skip_write_queue", "bulk_skip_write_history", wfail)

\* Lines 548-558: the skip history is written and success reported.
BulkSkipWriteHistory(wfail) ==
    /\ pc = "bulk_skip_write_history"
    /\ UNCHANGED <<queueFile, historyFile, fs, req, pre, served, others, locals>>
    /\ IF wfail
       THEN /\ Return(send_json_error(500, "exception", NoRef))
            /\ UNCHANGED skipHistoryFile
       ELSE /\ skipHistoryFile' = history_data
            /\ Return(BulkSuccess("Successfully skipped", "skipped_count", count))

----------------------------------------------------------------------------
\* The server process dies while handling a request (and is started again):
\* what it held in memory is gone, no response is sent, the files stay.

Crash ==
    /\ pc \notin {"idle", "done"}
    /\ pc' = "idle"
    /\ req' = NoReq
    /\ resp' = NoResp
    /\ pre' = NoSnapshot
    /\ ClearLocals
    /\ UNCHANGED <<stores, fs, served, others>>

\* The handler's frame is dropped and the server waits for the next request.
Finish ==
    /\ pc = "done"
    /\ pc' = "idle"
    /\ req' = NoReq
    /\ resp' = NoResp
    /\ pre' = NoSnapshot
    /\ ClearLocals
    /\ UNCHANGED <<stores, fs, served, others>>

----------------------------------------------------------------------------

Next ==
    \/ \E id \in Ids \cup {NoId}, st \in StatusInputs, wfail \in BOOLEAN :
          UpdateStatus(id, st, wfail)
    \/ \E has \in BOOLEAN, files \in ReplaceInputs, wfail \in BOOLEAN :
          ReplaceQueueFiles(has, files, wfail)
    \/ \E id \in Ids \cup {NoId} : MoveBegin(id)
    \/ \E oserr \in BOOLEAN : MoveCheck(oserr)
    \/ \E oserr \in BOOLEAN : MoveMove(oserr)
    \/ \E wfail \in BOOLEAN : MoveHistory(wfail)
    \/ \E wfail \in BOOLEAN : MoveQueue(wfail)
    \/ \E id \in Ids \cup {NoId} : SkipBegin(id)
    \/ \E mkerr \in BOOLEAN, mverr \in BOOLEAN : SkipFile(mkerr, mverr)
    \/ \E wfail \in BOOLEAN : SkipHistory(wfail)
    \/ \E wfail \in BOOLEAN : SkipQueue(wfail)
    \/ \E ids \in BulkInputs : BulkMoveBegin(ids)
    \/ \E oserr \in BOOLEAN : BulkMoveItem(oserr)
    \/ \E oserr \in BOOLEAN : BulkMoveMove(oserr)
    \/ \E wfail \in BOOLEAN : BulkMoveWriteQueue(wfail)
    \/ \E wfail \in BOOLEAN : BulkMoveWriteHistory(wfail)
    \/ \E ids \in BulkInputs : BulkSkipBegin(ids)
    \/ \E mkerr \in BOOLEAN, mverr \in BOOLEAN : BulkSkipItem(mkerr, mverr)
    \/ \E wfail \in BOOLEAN : BulkSkipWriteQueue(wfail)
    \/ \E wfail \in BOOLEAN : BulkSkipWriteHistory(wfail)
    \/ Crash
    \/ Finish

Spec == Init /\ [][Next]_vars

----------------------------------------------------------------------------
\* The external producer beside the server.

\* Proposals the producer appends in one behaviour.
MaxProduced == 1

\* The n-th proposal of the producer: a new id and a new file.
Digits == <<"1", "2", "3", "4">>
NewEntry(n) ==
    [id |-> <<"n", "-", Digits[n]>>,
     source_path |-> <<"home", "new", Digits[n]>>,
     dest_path |-> <<"home", "out", "n", Digits[n]>>, action |-> "move",
     status |-> "pending", confidence |-> 80, reasoning |-> "new"]

\* The producer appends a proposal to the queue file, whatever the server is
\* doing: its own read and write of the file are one step here.
Produce ==
    LET e == NewEntry(Cardinality(produced) + 1)
    IN  /\ Cardinality(produced) < MaxProduced
        /\ Cardinality(produced) < Len(Digits)
        /\ queueFile' = Stamp([queueFile EXCEPT !.files = Append(@, e)])
        /\ produced' = produced \cup {e.id}
        /\ UNCHANGED <<historyFile, skipHistoryFile, fs, locals, pc, req, resp,
                       pre, served, write_vars>>

ProducerNext == Next \/ Produce

\* The server starts over a queue of two proposals whose sources exist, or
\* over all three with the destination taken.
ProducerInit ==
    /\ Init
    /\ \/ queueFile.files = <<EntryA, EntryB>> /\ fs = InitialFs(TRUE, "file", TRUE, FALSE)
       \/ queueFile.files = <<EntryA, EntryB, EntryC>> /\ fs = InitialFs(TRUE, "dir", TRUE, TRUE)

ProducerSpec == ProducerInit /\ [][ProducerNext]_vars

----------------------------------------------------------------------------
\* The server after an earlier request has consumed an entry.

\* The disk after move-file has moved EntryA, and after skip-file has moved
\* EntryB's file into the holding directory.
FsAfterMoveA ==
    LET start == InitialFs(TRUE, "file", TRUE, FALSE)
    IN  shutil_move(makedirs(start, dirname(DestX), FALSE).fs, SrcA, DestX, FALSE).fs
FsAfterSkipB ==
    LET start == InitialFs(TRUE, "file", TRUE, FALSE)
    IN  shutil_move(makedirs(start, SKIPPED_FOLDER, FALSE).fs, SrcB,
                    join(SKIPPED_FOLDER, basename(SrcB)), FALSE).fs

\* The state a successful move-file of EntryA, or a successful skip-file of
\* EntryB, leaves over the queue of the whole catalogue.
SessionInit ==
    /\ pc = "idle"
    /\ req = NoReq
    /\ queue_data = Doc(<<>>, T0)
    /\ history_data = Doc(<<>>, T0)
    /\ file_index = 0
    /\ idx = 0
    /\ processed_ids = <<>>
    /\ count = 0
    /\ message = NoMessage
    /\ resp = NoResp
    /\ pre = NoSnapshot
    /\ served = 0
    /\ state_dir = <<>>
    /\ inodes = <<>>
    /\ writer = NoWriter
    /\ reader = NoReader
    /\ produced = {}
    /\ \/ /\ queueFile = Stamp(Doc(<<EntryB, EntryC>>, T0))
          /\ historyFile = AppendTo(LoadHistory(NoFile), MarkMoved(EntryA))
          /\ skipHistoryFile = NoFile
          /\ fs = FsAfterMoveA
       \/ /\ queueFile = Stamp(Doc(<<EntryA, EntryC>>, T0))
          /\ historyFile = NoFile
          /\ skipHistoryFile =
                AppendTo(LoadHistory(NoFile),
                         MarkSkipped(EntryB, join(SKIPPED_FOLDER, basename(SrcB))))
          /\ fs = FsAfterSkipB

SessionSpec == SessionInit /\ [][Next]_vars

----------------------------------------------------------------------------
\* The server over a queue whose delete proposals are marked in each of the
\* two ways the handlers accept.

\* A delete proposal marked by its action alone (its dest_path is a real
\* path), and one marked by the DELETE sentinel alone (it has no action).
EntryDeleteByAction ==
    [id |-> ID1, source_path |-> <<"~", "in", "a.txt">>,
     dest_path |-> <<"~", "out", "x", "a.txt">>, action |-> "delete",
     status |-> "pending", confidence |-> 95, reasoning |-> "duplicate"]
EntryDeleteBySentinel ==
    [id |-> ID2, source_path |-> <<"~", "in", "b">>,
     dest_path |-> DELETE,
     status |-> "pending", confidence |-> 100, reasoning |-> "empty folder"]

DeleteInit ==
    /\ queueFile \in {Doc(<<EntryDeleteByAction, EntryDeleteBySentinel, EntryC>>, T0),
                      Doc(<<EntryA, EntryB, EntryC>>, T0)}
    /\ historyFile = NoFile
    /\ skipHistoryFile = NoFile
    /\ fs \in {InitialFs(TRUE, b, TRUE, FALSE) : b \in {"file", "dir"}}
    /\ pc = "idle"
    /\ req = NoReq
    /\ queue_data = Doc(<<>>, T0)
    /\ history_data = Doc(<<>>, T0)
    /\ file_index = 0
    /\ idx = 0
    /\ processed_ids = <<>>
    /\ count = 0
    /\ message = NoMessage
    /\ resp = NoResp
    /\ pre = NoSnapshot
    /\ served = 0
    /\ state_dir = <<>>
    /\ inodes = <<>>
    /\ writer = NoWriter
    /\ reader = NoReader
    /\ produced = {}

DeleteSpec == DeleteInit /\ [][Next]_vars

----------------------------------------------------------------------------
\* The server when nothing goes wrong around it: no call of the OS raises
\* for a reason the disk does not show, no write of a state file fails, and
\* the process does not die.  What a request does is then decided by the
\* queue file and the disk alone.
QuietNext ==
    \/ \E id \in Ids \cup {NoId}, st \in StatusInputs : UpdateStatus(id, st, FALSE)
    \/ \E has \in BOOLEAN, files \in ReplaceInputs :
          ReplaceQueueFiles(has, files, FALSE)
    \/ \E id \in Ids \cup {NoId} : MoveBegin(id)
    \/ MoveCheck(FALSE)
    \/ MoveMove(FALSE)
    \/ MoveHistory(FALSE)
    \/ MoveQueue(FALSE)
    \/ \E id \in Ids \cup {NoId} : SkipBegin(id)
    \/ SkipFile(FALSE, FALSE)
    \/ SkipHistory(FALSE)
    \/ SkipQueue(FALSE)
    \/ \E ids \in BulkInputs : BulkMoveBegin(ids)
    \/ BulkMoveItem(FALSE)
    \/ BulkMoveMove(FALSE)
    \/ BulkMoveWriteQueue(FALSE)
    \/ BulkMoveWriteHistory(FALSE)
    \/ \E ids \in BulkInputs : BulkSkipBegin(ids)
    \/ BulkSkipItem(FALSE, FALSE)
    \/ BulkSkipWriteQueue(FALSE)
    \/ BulkSkipWriteHistory(FALSE)
    \/ Finish

QuietSpec == Init /\ [][QuietNext]_vars

\* What move-file makes of a queue, a move history and a disk for an id, when
\* nothing goes wrong around it (lines 132-261): whether it succeeds, the
\* disk, the entries of the queue file and those of the move history.
MoveFileResult(before, file_id) ==
    LET files == before.queue.files
        i == FindIndex(files, file_id)
        file_entry == files[i]
        source_path == SourcePath(file_entry)
        dest_path == DestPath(file_entry)
        Refused(f) == [success |-> FALSE, fs |-> f, queue |-> files,
                       history |-> FilesOf(before.history)]
        Done(f) == [success |-> TRUE, fs |-> f, queue |-> Pop(files, i),
                    history |-> AppendTo(LoadHistory(before.history),
                                         MarkMoved(file_entry)).files]
        deleted == IF isdir(before.fs, source_path)
                   THEN rmtree(before.fs, source_path, FALSE)
                   ELSE os_remove(before.fs, source_path, FALSE)
        made == makedirs(before.fs, dirname(dest_path), FALSE)
        moved == shutil_move(made.fs, source_path, dest_path, FALSE)
    IN  IF file_id = NoId \/ i = 0 THEN Refused(before.fs)
        ELSE IF ~exists(before.fs, source_path) THEN Refused(before.fs)
        ELSE IF IsDelete(file_entry)
        THEN IF deleted.ok THEN Done(deleted.fs) ELSE Refused(before.fs)
        ELSE IF ~made.ok THEN Refused(before.fs)
        ELSE IF DestinationTaken(made.fs, dest_path) THEN Refused(made.fs)
        ELSE IF moved.ok THEN Done(moved.fs) ELSE Refused(made.fs)

\* What skip-file makes of a queue, a skip history and a disk for an id, when
\* nothing goes wrong around it (lines 299-374): whether it succeeds, the
\* disk, the entries of the queue file and those of the skip history.
SkipFileResult(before, file_id) ==
    LET files == before.queue.files
        i == FindIndex(files, file_id)
        file_entry == files[i]
        source_path == SourcePath(file_entry)
        made == makedirs(before.fs, SKIPPED_FOLDER, FALSE)
        skipped_path == join(SKIPPED_FOLDER, basename(source_path))
        moved == shutil_move(made.fs, source_path, skipped_path, FALSE)
        Refused(f) == [success |-> FALSE, fs |-> f, queue |-> files,
                       history |-> FilesOf(before.skip)]
        Done(f, skipped_to) ==
            [success |-> TRUE, fs |-> f, queue |-> Pop(files, i),
             history |-> AppendTo(LoadHistory(before.skip),
                                  MarkSkipped(file_entry, skipped_to)).files]
    IN  IF file_id = NoId \/ i = 0 THEN Refused(before.fs)
        ELSE IF ~made.ok THEN Refused(before.fs)
        ELSE IF ~exists(made.fs, source_path) THEN Done(made.fs, None)
        ELSE IF moved.ok THEN Done(moved.fs, skipped_path)
        ELSE Refused(made.fs)

\* The loop of bulk-move over the ids left (lines 409-459), on the queue in
\* memory, the disk, the history in memory and the ids processed so far; at
\* the end of the ids the filtered queue and the history are what is
\* written (lines 461-467); a stop writes nothing.
RECURSIVE BulkMoveLoop(_, _, _, _, _, _)
BulkMoveLoop(before, files, f, hist, processed, ids) ==
    LET file_id == Head(ids)
        i == FindIndex(files, file_id)
        file_entry == files[i]
        source_path == SourcePath(file_entry)
        dest_path == DestPath(file_entry)
        removed == os_remove(f, source_path, FALSE)
        made == makedirs(f, dirname(dest_path), FALSE)
        moved == shutil_move(made.fs, source_path, dest_path, FALSE)
        Stop(g) == [success |-> FALSE, fs |-> g, queue |-> before.queue.files,
                    history |-> FilesOf(before.history)]
        Go(g) == BulkMoveLoop(before,
                              [files EXCEPT ![i] = MarkMoved(file_entry)], g,
                              Append(hist, MarkMoved(file_entry)),
                              Append(processed, file_id), Tail(ids))
    IN  IF ids = <<>>
        THEN [success |-> TRUE, fs |-> f,
              queue |-> Without(files, Range(processed)), history |-> hist]
        ELSE IF i = 0 THEN Stop(f)
        ELSE IF ~exists(f, source_path) THEN Stop(f)
        ELSE IF IsDelete(file_entry)
        THEN IF removed.ok THEN Go(removed.fs) ELSE Stop(f)
        ELSE IF ~made.ok THEN Stop(f)
        ELSE IF DestinationTaken(made.fs, dest_path) THEN Stop(made.fs)
        ELSE IF moved.ok THEN Go(moved.fs) ELSE Stop(made.fs)

\* What bulk-move makes of a queue, a move history and a disk for a list of
\* ids, when nothing goes wrong around it (lines 379-477).
BulkMoveResult(before, file_ids) ==
    IF file_ids = <<>>
    THEN [success |-> FALSE, fs |-> before.fs, queue |-> before.queue.files,
          history |-> FilesOf(before.history)]
    ELSE BulkMoveLoop(before, before.queue.files, before.fs,
                      LoadHistory(before.history).files, <<>>, file_ids)

\* The loop of bulk-skip over the ids left (lines 512-540), and the writes at
\* its end (lines 542-548).
RECURSIVE BulkSkipLoop(_, _, _, _, _, _)
BulkSkipLoop(before, files, f, hist, processed, ids) ==
    LET file_id == Head(ids)
        i == FindIndex(files, file_id)
        file_entry == files[i]
        source_path == SourcePath(file_entry)
        made == makedirs(f, SKIPPED_FOLDER, FALSE)
        skipped_path == join(SKIPPED_FOLDER, basename(source_path))
        moved == shutil_move(made.fs, source_path, skipped_path, FALSE)
        Stop(g) == [success |-> FALSE, fs |-> g, queue |-> before.queue.files,
                    history |-> FilesOf(before.skip)]
        Go(g, skipped_to) ==
            BulkSkipLoop(before,
                         [files EXCEPT ![i] = MarkSkipped(file_entry, skipped_to)],
                         g, Append(hist, MarkSkipped(file_entry, skipped_to)),
                         Append(processed, file_id), Tail(ids))
    IN  IF ids = <<>>
        THEN [success |-> TRUE, fs |-> f,
              queue |-> Without(files, Range(processed)), history |-> hist]
        ELSE IF i = 0 THEN Stop(f)
        ELSE IF ~made.ok THEN Stop(f)
        ELSE IF ~exists(made.fs, source_path) THEN Go(made.fs, None)
        ELSE IF moved.ok THEN Go(moved.fs, skipped_path)
        ELSE Stop(made.fs)

\* What bulk-skip makes of a queue, a skip history and a disk for a list of
\* ids, when nothing goes wrong around it (lines 482-558).
BulkSkipResult(before, file_ids) ==
    IF file_ids = <<>>
    THEN [success |-> FALSE, fs |-> before.fs, queue |-> before.queue.files,
          history |-> FilesOf(before.skip)]
    ELSE BulkSkipLoop(before, before.queue.files, before.fs,
                      LoadHistory(before.skip).files, <<>>, file_ids)

\* The status and the confidence a proposal can carry when it is executed:
\* as the producer wrote it, or as a user has annotated it since.
Grades ==
    {[status |-> "pending", confidence |-> 100],
     [status |-> "rejected", confidence |-> 20]}

Regrade(file_entry, g) ==
    [file_entry EXCEPT !["status"] = g.status, !["confidence"] = g.confidence]

\* Runs of the quiet server over the whole catalogue, each proposal with one
\* of the grades.
GradeInit ==
    /\ queueFile \in {Doc(<<Regrade(EntryA, g[1]), Regrade(EntryB, g[2]),
                            Regrade(EntryC, g[3])>>, T0) :
                        g \in [1..3 -> Grades]}
    /\ historyFile = NoFile
    /\ skipHistoryFile = NoFile
    /\ fs \in {InitialFs(TRUE, b, TRUE, FALSE) : b \in {"file", "dir"}}
    /\ pc = "idle"
    /\ req = NoReq
    /\ queue_data = Doc(<<>>, T0)
    /\ history_data = Doc(<<>>, T0)
    /\ file_index = 0
    /\ idx = 0
    /\ processed_ids = <<>>
    /\ count = 0
    /\ message = NoMessage
    /\ resp = NoResp
    /\ pre = NoSnapshot
    /\ served = 0
    /\ state_dir = <<>>
    /\ inodes = <<>>
    /\ writer = NoWriter
    /\ reader = NoReader
    /\ produced = {}

GradeSpec == GradeInit /\ [][QuietNext]_vars


----------------------------------------------------------------------------
\* Another process of the same user works on the disk while the server runs.

\* The other process creates a file of its own at the destination of a
\* proposal, whatever the server is doing: it can do so once the
\* destination's directory exists and while nothing is at the path.
ExternalCreate ==
    /\ \E p \in {DestX} :
          /\ isdir(fs, dirname(p))
          /\ ~exists(fs, p)
          /\ fs' = (p :> FileNode("other")) @@ fs
    /\ UNCHANGED <<stores, locals, pc, req, resp, pre, served, others>>

RaceNext == Next \/ ExternalCreate

RaceSpec == Init /\ [][RaceNext]_vars

----------------------------------------------------------------------------

\* Readers of the state used by the properties below.

QueueIds == IdsIn(queueFile.files)
MoveHistoryIds == IdsIn(FilesOf(historyFile))
SkipHistoryIds == IdsIn(FilesOf(skipHistoryFile))

\* How many entries of files carry the id.
Occurrences(files, id) == Cardinality({i \in 1..Len(files) : files[i]["id"] = id})

\* The response to a request of one of the kinds ops has been sent.
Answered(ops) == pc = "done" /\ req.op \in ops

\* A bulk request was answered with a failure while the loop stood at an id.
StoppedEarly ==
    /\ Answered({"bulk_move", "bulk_skip"})
    /\ ~resp.success
    /\ idx \in 1..Len(req.ids)

\* The ids of a bulk request before and after position k.
Earlier(k) == {req.ids[j] : j \in 1..(k - 1)}
Later(k) == {req.ids[j] : j \in (k + 1)..Len(req.ids)}

----------------------------------------------------------------------------
\* C1. After a move-file or skip-file request for an id is answered with
\* success, the entry it found has left the queue file (the queue holds one
\* entry of that id fewer than when the request began: none when the id was
\* unique, as the queue's ids are meant to be) and the id is present in the
\* history file of the operation: the move history for move-file, the skip
\* history for skip-file.
C1_ExactlyOneStore ==
    (Answered({"move", "skip"}) /\ resp.success) =>
        /\ Occurrences(queueFile.files, req.id) + 1
              = Occurrences(pre.queue.files, req.id)
        /\ Occurrences(pre.queue.files, req.id) = 1 => req.id \notin QueueIds
        /\ req.op = "move" => req.id \in MoveHistoryIds
        /\ req.op = "skip" => req.id \in SkipHistoryIds

\* A move-file request answered with success whose entry has left the queue
\* and stands in the move history.
C1_Witness ==
    /\ Answered({"move"})
    /\ resp.success
    /\ req.id \in IdsIn(pre.queue.files)
    /\ req.id \notin QueueIds
    /\ req.id \in MoveHistoryIds

----------------------------------------------------------------------------
\* C2. After a bulk-move or bulk-skip request stops early at a failing id,
\* the queue file has been rewritten without the entries processed before
\* the failure, and each of those entries is present in the history file of
\* the operation.
C2_EarlyStopPersisted ==
    StoppedEarly =>
        \A id \in Range(processed_ids) :
            /\ id \notin QueueIds
            /\ req.op = "bulk_move" => id \in MoveHistoryIds
            /\ req.op = "bulk_skip" => id \in SkipHistoryIds


----------------------------------------------------------------------------
\* C3. A bulk request handles its ids in the order given and stops at the
\* first id that fails: the ids handled are exactly those before the failing
\* one, in order; every later id's entry stands in the queue file where it
\* stood, unchanged (its status included); and the source of a later id that
\* was not itself handled earlier in the list is untouched on disk.
C3_StopsAtFirstFailure ==
    StoppedEarly =>
        /\ processed_ids = SubSeq(req.ids, 1, idx - 1)
        /\ \A id \in Later(idx) :
             \A k \in 1..Len(pre.queue.files) :
                LET e == pre.queue.files[k]
                IN  e["id"] = id =>
                       /\ k <= Len(queueFile.files)
                       /\ queueFile.files[k] = e
                       /\ id \notin Earlier(idx + 1) =>
                            \A p \in Under(pre.fs, SourcePath(e)) :
                                exists(fs, p) /\ fs[p] = pre.fs[p]

\* A bulk request stopped at its first id while a later id, never handled,
\* has its entry in the queue and its source on disk.
C3_Witness ==
    /\ StoppedEarly
    /\ \E id \in Later(idx) :
          /\ id \notin Earlier(idx + 1)
          /\ \E k \in 1..Len(pre.queue.files) :
                /\ pre.queue.files[k]["id"] = id
                /\ exists(pre.fs, SourcePath(pre.queue.files[k]))

----------------------------------------------------------------------------
\* C4. When a move-file request fails softly (source missing, destination
\* taken, or the move or delete raising), the queue file, the move history
\* and the skip history are what they were when the request began, and the
\* entry keeps its status in the queue file.
C4_SoftFailureKeepsStores ==
    (Answered({"move"}) /\ resp.code = 200 /\ ~resp.success) =>
        /\ queueFile = pre.queue
        /\ historyFile = pre.history
        /\ skipHistoryFile = pre.skip
        /\ \A k \in 1..Len(pre.queue.files) :
              pre.queue.files[k]["id"] = req.id =>
                 queueFile.files[k]["status"] = pre.queue.files[k]["status"]

\* A move-file request whose move raised was answered with a soft failure.
C4_Witness ==
    /\ Answered({"move"})
    /\ resp.code = 200
    /\ ~resp.success
    /\ resp.error = "Failed to move file"

----------------------------------------------------------------------------
\* The handler stands before the checks of a move entry whose destination
\* exists.
NoClobberCase ==
    /\ pc \in {"move_check", "bulk_move_item"}
    /\ LET i == IF pc = "move_check" THEN file_index
                ELSE FindIndex(queue_data.files, req.ids[idx])
       IN  /\ i # 0
           /\ ~IsDelete(queue_data.files[i])
           /\ exists(fs, DestPath(queue_data.files[i]))

\* The source of the entry the handler stands before is on disk.
SourceThere ==
    LET i == IF pc = "move_check" THEN file_index
             ELSE FindIndex(queue_data.files, req.ids[idx])
    IN  exists(fs, SourcePath(queue_data.files[i]))

\* C5. No-clobber: when the handler of move-file, or the loop of bulk-move,
\* comes to an entry to be moved whose destination path exists, its step
\* answers with a soft failure (the destination-exists one when the source
\* is there), changes nothing on disk (the source stays, the destination is
\* not touched) and leaves the queue file as it was when the request began.
C5_NoClobber ==
    [][(NoClobberCase /\ pc' # "idle") =>
          /\ pc' = "done"
          /\ resp'.code = 200
          /\ ~resp'.success
          /\ SourceThere =>
                resp'.error \in {"Destination file already exists",
                                 "Destination already exists"}
          /\ fs' = fs
          /\ queueFile' = queueFile
          /\ queueFile' = pre.queue]_vars

\* A bulk-move stopped on a destination that an earlier id of the same
\* request had filled; nothing was put in its place.
C5_Witness ==
    /\ Answered({"bulk_move"})
    /\ resp.error = "Destination already exists"
    /\ count = 1
    /\ exists(fs, DestX) /\ fs[DestX] = FileNode("a")
    /\ exists(fs, SrcC)

----------------------------------------------------------------------------
----------------------------------------------------------------------------
\* C7. In every state of the three files, the state between the two writes
\* of one request and the state a dying process leaves there included, no id
\* is both in the queue file and in a history file.
C7_NeverInBothStores ==
    QueueIds \cap (MoveHistoryIds \cup SkipHistoryIds) = {}

----------------------------------------------------------------------------
\* C8. Whatever the answer to a move-file, skip-file, bulk-move or bulk-skip
\* request (success, soft failure, 404, early stop, or a 500 from a write),
\* every id the queue file held when the request began is still in the queue
\* file or is recorded in a history file.
C8_NoEntryLost ==
    Answered({"move", "skip", "bulk_move", "bulk_skip"}) =>
        \A id \in IdsIn(pre.queue.files) :
            id \in QueueIds \cup MoveHistoryIds \cup SkipHistoryIds

----------------------------------------------------------------------------
\* C9. When a bulk-move or bulk-skip request stops on a failure, whatever
\* the failure, the response carries the count of the operation and the
\* count is the number of ids handled before the failing one.
C9_CountReported ==
    StoppedEarly =>
        /\ resp.count_key = IF req.op = "bulk_move" THEN "moved_count"
                            ELSE "skipped_count"
        /\ resp.count = Len(processed_ids)
        /\ resp.count = idx - 1

----------------------------------------------------------------------------
\* C10. Whatever failure stops a bulk request (id not in the queue, source
\* missing, destination taken, the filesystem raising), the response carries
\* the id of the failing item.
C10_CarriesFailingId ==
    StoppedEarly =>
        /\ resp.ref.what \in {"id", "id_prefix"}
        /\ resp.ref.val = req.ids[idx]

----------------------------------------------------------------------------
\* The history file a bulk request appends to, now and when it began.
BulkHistoryNow ==
    FilesOf(IF req.op = "bulk_move" THEN historyFile ELSE skipHistoryFile)
BulkHistoryBefore ==
    FilesOf(IF req.op = "bulk_move" THEN pre.history ELSE pre.skip)

\* The entry's id is none of the ids of the request.
NotListed(e) == e["id"] \notin Range(req.ids)

\* C11. When every id of a bulk-move or bulk-skip request succeeds, the
\* response is a success whose count is the number of ids; no listed id is
\* left in the queue file; the history file of the operation is what it was
\* followed by one snapshot per listed id, in the order of the ids; and the
\* queue file holds the entries not listed, unchanged and in their order.
C11_BulkFullSuccess ==
    (Answered({"bulk_move", "bulk_skip"}) /\ resp.success) =>
        /\ resp.code = 200
        /\ resp.count = Len(req.ids)
        /\ resp.count_key = IF req.op = "bulk_move" THEN "moved_count"
                            ELSE "skipped_count"
        /\ \A j \in 1..Len(req.ids) : req.ids[j] \notin QueueIds
        /\ Len(BulkHistoryNow) = Len(BulkHistoryBefore) + Len(req.ids)
        /\ SubSeq(BulkHistoryNow, 1, Len(BulkHistoryBefore)) = BulkHistoryBefore
        /\ \A j \in 1..Len(req.ids) :
              BulkHistoryNow[Len(BulkHistoryBefore) + j]["id"] = req.ids[j]
        /\ queueFile.files = SelectSeq(pre.queue.files, NotListed)

\* A bulk-move of two different ids succeeded and left a third entry in the
\* queue.
C11_Witness ==
    /\ Answered({"bulk_move"})
    /\ resp.success
    /\ Len(req.ids) = 2
    /\ req.ids[1] # req.ids[2]
    /\ resp.count = 2
    /\ Len(queueFile.files) = 1
    /\ Len(FilesOf(historyFile)) = 2

----------------------------------------------------------------------------
\* atomic_write_json, step by step, beside a process that reads the file.
\*
\* The directory maps a file name to an inode and an inode holds the chunks
\* written to it so far; a reader keeps the inode it opened.  A document is
\* written as an opening chunk, its last_updated, one chunk per entry and a
\* closing chunk; text that does not have that shape does not parse.

\* Calls of atomic_write_json followed in one behaviour.
MaxWrites == 2

\* The file written (filepath) and the names mkstemp draws from.
QUEUE_NAME == "file_queue.json"
TempNames == {"a.tmp", "b.tmp", "c.tmp", "d.tmp"}

\* The documents written and found on disk.
WriteDocs == {Doc(<<>>, T0), Doc(<<EntryA>>, utcnow), Doc(<<EntryA, EntryB>>, T0)}

Chunk(t, v) == [t |-> t, v |-> v]

\* json.dump(data, f, indent=2): the text of a document, chunk by chunk.
Serialize(doc) ==
    <<Chunk("{", <<>>), Chunk("last_updated", <<doc.last_updated>>)>>
    \o [i \in 1..Len(doc.files) |-> Chunk("entry", <<doc.files[i]>>)]
    \o <<Chunk("}", <<>>)>>

\* What json.load makes of a text: the document, or JSONDecodeError.
Corrupt == [corrupt |-> TRUE]
Parse(text) ==
    IF /\ Len(text) >= 3
       /\ text[1].t = "{"
       /\ text[2].t = "last_updated"
       /\ text[Len(text)].t = "}"
       /\ \A i \in 3..(Len(text) - 1) : text[i].t = "entry"
    THEN Doc([i \in 1..(Len(text) - 3) |-> text[i + 2].v[1]], text[2].v[1])
    ELSE Corrupt

\* What a process that opens and reads the file now gets.
TargetView(dir, tab) ==
    IF QUEUE_NAME \in DOMAIN dir THEN Parse(tab[dir[QUEUE_NAME]]) ELSE NoFile

\* os.unlink(name) and os.rename(src, dst) on the directory.
os_unlink(dir, name) == [n \in DOMAIN dir \ {name} |-> dir[n]]
os_rename(dir, src, dst) ==
    [n \in (DOMAIN dir \ {src}) \cup {dst} |-> IF n = dst THEN dir[src] ELSE dir[n]]

\* Mkstemp, but the document is written in place: open(filepath, 'w')
\* truncates the file and the chunks go straight into it.
Mkstemp_inplace(data, oserr) ==
    LET began == [writer EXCEPT !.calls = @ + 1, !.data = data, !.written = 0,
                                !.before = TargetView(state_dir, inodes)]
    IN  /\ writer.pc = "idle"
        /\ writer.calls < MaxWrites
        /\ UNCHANGED <<server_vars, reader, produced>>
        /\ IF oserr
           THEN /\ writer' = [began EXCEPT !.pc = "raised", !.temp_path = ""]
                /\ UNCHANGED <<state_dir, inodes>>
           ELSE /\ writer' = [began EXCEPT !.pc = "dump", !.temp_path = QUEUE_NAME]
                /\ IF QUEUE_NAME \in DOMAIN state_dir
                   THEN /\ inodes' = [inodes EXCEPT ![state_dir[QUEUE_NAME]] = <<>>]
                        /\ UNCHANGED state_dir
                   ELSE /\ inodes' = Append(inodes, <<>>)
                        /\ state_dir' = (QUEUE_NAME :> (Len(inodes) + 1)) @@ state_dir

\* Lines 44-45: tempfile.mkstemp(dir=dir_path, suffix='.tmp') makes an empty
\* file under a fresh name, or raises (nothing is made then, and the call is
\* outside the try).
Mkstemp(data, oserr) ==
    LET fresh == CHOOSE n \in TempNames : n \notin DOMAIN state_dir
        began == [writer EXCEPT !.calls = @ + 1, !.data = data, !.written = 0,
                                !.before = TargetView(state_dir, inodes)]
    IN  /\ writer.pc = "idle"
        /\ writer.calls < MaxWrites
        /\ \E n \in TempNames : n \notin DOMAIN state_dir
        /\ UNCHANGED <<server_vars, reader, produced>>
        /\ IF oserr
           THEN /\ writer' = [began EXCEPT !.pc = "raised", !.temp_path = ""]
                /\ UNCHANGED <<state_dir, inodes>>
           ELSE /\ writer' = [began EXCEPT !.pc = "dump", !.temp_path = fresh]
                /\ inodes' = Append(inodes, <<>>)
                /\ state_dir' = (fresh :> (Len(inodes) + 1)) @@ state_dir

\* Lines 46-48: json.dump writes the next chunk to the temporary file; after
\* the last one the file is closed.  It may raise at any chunk.
Dump(fail) ==
    LET chunks == Serialize(writer.data)
        n == writer.written + 1
    IN  /\ writer.pc = "dump"
        /\ UNCHANGED <<server_vars, reader, produced, state_dir>>
        /\ IF fail
           THEN /\ writer' = [writer EXCEPT !.pc = "except"]
                /\ UNCHANGED inodes
           ELSE /\ inodes' = [inodes EXCEPT ![state_dir[writer.temp_path]] =
                                               Append(@, chunks[n])]
                /\ writer' = [writer EXCEPT !.written = n,
                                !.pc = IF n = Len(chunks) THEN "rename" ELSE "dump"]

\* Line 49: os.rename(temp_path, filepath), or it raises.
Rename(oserr) ==
    /\ writer.pc = "rename"
    /\ UNCHANGED <<server_vars, reader, produced, inodes>>
    /\ IF oserr
       THEN /\ writer' = [writer EXCEPT !.pc = "except"]
            /\ UNCHANGED state_dir
       ELSE /\ state_dir' = os_rename(state_dir, writer.temp_path, QUEUE_NAME)
            /\ writer' = [writer EXCEPT !.pc = "returned"]

\* Except, but the temporary file is left behind.
Except_leaves ==
    /\ writer.pc = "except"
    /\ UNCHANGED <<server_vars, reader, produced, inodes, state_dir>>
    /\ writer' = [writer EXCEPT !.pc = "raised"]

\* Lines 50-54: the temporary file is removed when it exists and the
\* exception is raised again.
Except ==
    /\ writer.pc = "except"
    /\ UNCHANGED <<server_vars, reader, produced, inodes>>
    /\ state_dir' = IF writer.temp_path \in DOMAIN state_dir
                    THEN os_unlink(state_dir, writer.temp_path)
                    ELSE state_dir
    /\ writer' = [writer EXCEPT !.pc = "raised"]

\* The writing process is killed inside the call: nothing more is done.
Kill ==
    /\ writer.pc \in {"dump", "rename", "except"}
    /\ UNCHANGED <<server_vars, reader, produced, state_dir, inodes>>
    /\ writer' = [writer EXCEPT !.pc = "killed"]

\* The caller goes on (or the server is started again) and may write again.
Resume ==
    /\ writer.pc \in {"returned", "raised", "killed"}
    /\ UNCHANGED <<server_vars, reader, produced, state_dir, inodes>>
    /\ writer' = [NoWriter EXCEPT !.calls = writer.calls]

\* with open(QUEUE_FILE, 'r') as f: the reader gets the inode the name is
\* bound to now, or FileNotFoundError.
ReadOpen ==
    /\ reader.pc = "idle"
    /\ UNCHANGED <<server_vars, writer, produced, state_dir, inodes>>
    /\ reader' = IF QUEUE_NAME \in DOMAIN state_dir
                 THEN [NoReader EXCEPT !.pc = "reading",
                                       !.ino = state_dir[QUEUE_NAME],
                                       !.expect = TargetView(state_dir, inodes)]
                 ELSE [NoReader EXCEPT !.pc = "done"]

\* json.load(f): the next chunk of the inode is read; at the end of the file
\* the text is parsed.
ReadChunk ==
    LET text == inodes[reader.ino]
    IN  /\ reader.pc = "reading"
        /\ UNCHANGED <<server_vars, writer, produced, state_dir, inodes>>
        /\ reader' = IF Len(reader.buf) < Len(text)
                     THEN [reader EXCEPT !.buf = Append(@, text[Len(@) + 1])]
                     ELSE [reader EXCEPT !.pc = "done", !.seen = Parse(reader.buf)]

ReadClose ==
    /\ reader.pc = "done"
    /\ UNCHANGED <<server_vars, writer, produced, state_dir, inodes>>
    /\ reader' = NoReader

\* The state directory holds no queue file yet, or a whole document; the
\* server stands idle over an empty queue.
AtomicInit ==
    /\ queueFile = Doc(<<>>, T0)
    /\ historyFile = NoFile
    /\ skipHistoryFile = NoFile
    /\ fs = InitialFs(FALSE, "none", FALSE, FALSE)
    /\ pc = "idle"
    /\ req = NoReq
    /\ queue_data = Doc(<<>>, T0)
    /\ history_data = Doc(<<>>, T0)
    /\ file_index = 0
    /\ idx = 0
    /\ processed_ids = <<>>
    /\ count = 0
    /\ message = NoMessage
    /\ resp = NoResp
    /\ pre = NoSnapshot
    /\ served = 0
    /\ produced = {}
    /\ writer = NoWriter
    /\ reader = NoReader
    /\ \/ state_dir = <<>> /\ inodes = <<>>
       \/ \E d \in WriteDocs :
             /\ state_dir = (QUEUE_NAME :> 1)
             /\ inodes = <<Serialize(d)>>

AtomicNext ==
    \/ \E data \in WriteDocs, oserr \in BOOLEAN : Mkstemp(data, oserr)
    \/ \E fail \in BOOLEAN : Dump(fail)
    \/ \E oserr \in BOOLEAN : Rename(oserr)
    \/ Except
    \/ Kill
    \/ Resume
    \/ ReadOpen
    \/ ReadChunk
    \/ ReadClose

AtomicSpec == AtomicInit /\ [][AtomicNext]_vars

----------------------------------------------------------------------------
\* C12: whoever reads the file while atomic_write_json is writing it, or
\* after the writer was killed before the rename, gets the whole previous
\* document; after the rename the whole new document; a read never yields a
\* truncated or partial document.
C12_ReaderSeesWholeDocument ==
    /\ TargetView(state_dir, inodes) # Corrupt
    /\ writer.pc \in {"dump", "rename", "except", "killed"} =>
           TargetView(state_dir, inodes) = writer.before
    /\ writer.pc = "returned" => TargetView(state_dir, inodes) = writer.data
    /\ reader.pc = "done" =>
           /\ reader.seen # Corrupt
           /\ reader.seen = reader.expect

\* A read that began before the rename and ended after it got the whole
\* previous document, which is not the one written.
C12_Witness ==
    /\ writer.pc = "returned"
    /\ reader.pc = "done"
    /\ reader.seen = writer.before
    /\ writer.before # NoFile
    /\ writer.before # writer.data
    /\ Len(writer.before.files) > 0

\* C13: when atomic_write_json fails while serializing or renaming, the
\* error is raised to the caller, the temporary file of the call is gone and
\* the file still holds what it held before the call.
C13_FailedWriteLeavesTarget ==
    writer.pc = "raised" =>
        /\ writer.temp_path \notin DOMAIN state_dir
        /\ TargetView(state_dir, inodes) = writer.before

\* Serialization failed after part of the document had been written.
C13_Witness ==
    /\ writer.pc = "raised"
    /\ writer.written > 0
    /\ writer.written < Len(Serialize(writer.data))
    /\ writer.before # NoFile
    /\ writer.before # writer.data

----------------------------------------------------------------------------
\* C14: when the producer appends a proposal between a handler's read of the
\* queue and its write of it, the write discards the proposal: it is in the
\* queue before the write and in no store after it.
C14_LostUpdate ==
    [][\A p \in produced :
          (/\ pc \notin {"idle", "done"}
           /\ p \in IdsIn(queueFile.files)
           /\ p \notin IdsIn(queue_data.files)
           /\ produced' = produced
           /\ queueFile' # queueFile)
          => /\ p \notin IdsIn(queueFile'.files)
             /\ p \notin IdsIn(FilesOf(historyFile'))
             /\ p \notin IdsIn(FilesOf(skipHistoryFile'))]_vars

\* A request succeeded and a produced proposal is in no store.
C14_Witness ==
    /\ Answered({"move", "bulk_move"})
    /\ resp.success
    /\ \E p \in produced :
          /\ p \notin QueueIds
          /\ p \notin MoveHistoryIds
          /\ p \notin SkipHistoryIds

----------------------------------------------------------------------------
\* The files (not the directories) of a filesystem, with their content.
FileNodes(f) == {<<p, f[p]>> : p \in {q \in DOMAIN f : f[q] # DirNode}}

\* The entry the request finds for an id, as the queue held it when the
\* request began (0: none).
FoundBefore(id) == FindIndex(pre.queue.files, id)

\* The queue held an entry of this id when the request began and the source
\* of the entry was not on disk.
Vanished(id) ==
    /\ FoundBefore(id) # 0
    /\ ~exists(pre.fs, SourcePath(pre.queue.files[FoundBefore(id)]))

\* C15: a skip-file request for an entry whose source is gone succeeds all
\* the same (short of an I/O error answered with 500): the entry is appended
\* to the skip history with skipped_to null and status skipped, it leaves the
\* queue, and no file on disk is touched.  A bulk-skip request does not stop
\* on such an id, and records it the same way.
C15_SkipVanishedSource ==
    /\ (Answered({"skip"}) /\ Vanished(req.id) /\ resp.code # 500) =>
          LET h == FilesOf(skipHistoryFile)
          IN  /\ resp.code = 200
              /\ resp.success
              /\ Len(h) = Len(FilesOf(pre.skip)) + 1
              /\ h[Len(h)]["id"] = req.id
              /\ h[Len(h)]["skipped_to"] = None
              /\ h[Len(h)]["status"] = "skipped"
              /\ queueFile.files = Pop(pre.queue.files, FoundBefore(req.id))
              /\ historyFile = pre.history
              /\ FileNodes(fs) = FileNodes(pre.fs)
    /\ (Answered({"bulk_skip"}) /\ idx \in 1..Len(req.ids)
        /\ Vanished(req.ids[idx])) => resp.code = 500
    /\ (Answered({"bulk_skip"}) /\ resp.success) =>
          /\ \A j \in 1..Len(req.ids) :
                Vanished(req.ids[j]) =>
                   LET s == BulkHistoryNow[Len(BulkHistoryBefore) + j]
                   IN  /\ s["id"] = req.ids[j]
                       /\ s["skipped_to"] = None
                       /\ s["status"] = "skipped"
                       /\ req.ids[j] \notin QueueIds
          /\ (\A j \in 1..Len(req.ids) : Vanished(req.ids[j])) =>
                FileNodes(fs) = FileNodes(pre.fs)

\* A skip-file request for an entry whose source was gone has succeeded.
C15_Witness ==
    /\ Answered({"skip"})
    /\ Vanished(req.id)
    /\ resp.success
    /\ FilesOf(skipHistoryFile)[1]["skipped_to"] = None
    /\ req.id \notin QueueIds

----------------------------------------------------------------------------
\* The path in the holding directory a source is moved to.
HeldPath(source_path) == join(SKIPPED_FOLDER, basename(source_path))

----------------------------------------------------------------------------
\* The ids a skip-file or bulk-skip request names.
SkipListed == IF req.op = "skip" THEN {req.id} ELSE Range(req.ids)

\* The sources, on disk when the request began, of the entries a skip-file
\* or bulk-skip request names.
SkippedSources ==
    {SourcePath(pre.queue.files[FoundBefore(id)]) :
        id \in {l \in SkipListed : FoundBefore(l) # 0 /\ ~Vanished(l)}}

----------------------------------------------------------------------------
\* The ids consumed so far: recorded in a history file and gone from the
\* queue file.
Consumed == (MoveHistoryIds \cup SkipHistoryIds) \ QueueIds

\* C18: an id that has been consumed (it is in a history file and no longer
\* in the queue file) is never in the queue file again, whatever request
\* follows: update-status, move-file, skip-file, the bulk requests or
\* update-queue.
C18_NeverReinserted ==
    [][\A id \in Consumed : id \notin IdsIn(queueFile'.files)]_vars

----------------------------------------------------------------------------
\* C19: no two entries of the queue file have the same id, whatever requests
\* were served (the queue began with pairwise distinct ids).
C19_DistinctIds ==
    \A i, j \in 1..Len(queueFile.files) :
        queueFile.files[i]["id"] = queueFile.files[j]["id"] => i = j

----------------------------------------------------------------------------
\* The sequence new is the sequence old with entries added at its end.
Extends(new, old) ==
    /\ Len(old) <= Len(new)
    /\ SubSeq(new, 1, Len(old)) = old

\* C20: the history files are append-only: whatever step the server takes,
\* every snapshot that was in the move history or in the skip history is
\* still there afterwards, unmodified and at the same position; a step only
\* adds snapshots at the end.
C20_HistoryAppendOnly ==
    [][/\ Extends(FilesOf(historyFile'), FilesOf(historyFile))
       /\ Extends(FilesOf(skipHistoryFile'), FilesOf(skipHistoryFile))]_vars

\* A request has appended a snapshot to the move history behind the snapshot
\* of EntryA, which an earlier request had put there.
C20_Witness ==
    /\ Answered({"move", "bulk_move"})
    /\ resp.success
    /\ Len(FilesOf(pre.history)) = 1
    /\ Len(FilesOf(historyFile)) = 2
    /\ FilesOf(historyFile)[1] = MarkMoved(EntryA)
    /\ FilesOf(historyFile)[2]["id"] = ID2

----------------------------------------------------------------------------
\* C21: whatever requests were served (a bulk request that names an id twice
\* included), every id has at most one snapshot in the move history and the
\* skip history taken together.
C21_OneSnapshotPerId ==
    \A id \in MoveHistoryIds \cup SkipHistoryIds :
        Occurrences(FilesOf(historyFile), id)
            + Occurrences(FilesOf(skipHistoryFile), id) <= 1

----------------------------------------------------------------------------
\* The entry a move-file or skip-file request finds, as the queue held it
\* when the request began.
EntryBefore == pre.queue.files[FoundBefore(req.id)]

\* The snapshot is the entry with the keys in changed set or added, and
\* every other key as it was.
SameBut(snapshot, entry, changed) ==
    /\ DOMAIN entry \subseteq DOMAIN snapshot
    /\ DOMAIN snapshot \subseteq DOMAIN entry \cup changed
    /\ \A k \in DOMAIN entry \ changed : snapshot[k] = entry[k]

\* C22: after a move-file request for a move entry has succeeded, the source
\* was on disk and the destination was free when the request began; every
\* directory above the destination exists, the file is at the destination
\* path and no longer at the source path; the queue file is the queue
\* without the entry; and the move history has one snapshot more, the
\* entry's, with status moved and a moved_at stamp.
C22_MoveSucceeds ==
    (/\ Answered({"move"})
     /\ resp.success
     /\ ~IsDelete(EntryBefore)) =>
        LET e == EntryBefore
            src == SourcePath(e)
            dst == DestPath(e)
            h == FilesOf(historyFile)
        IN  /\ exists(pre.fs, src)
            /\ ~exists(pre.fs, dst)
            /\ \A d \in Prefixes(dirname(dst)) : isdir(fs, d)
            /\ exists(fs, dst)
            /\ fs[dst] = pre.fs[src]
            /\ ~exists(fs, src)
            /\ queueFile.files = Pop(pre.queue.files, FoundBefore(req.id))
            /\ Len(h) = Len(FilesOf(pre.history)) + 1
            /\ SubSeq(h, 1, Len(h) - 1) = FilesOf(pre.history)
            /\ SameBut(h[Len(h)], e, {"status", "moved_at"})
            /\ h[Len(h)]["status"] = "moved"
            /\ "moved_at" \in DOMAIN h[Len(h)]
            /\ h[Len(h)]["moved_at"] = utcnow
            /\ skipHistoryFile = pre.skip

\* A move-file request has moved EntryA to its destination, whose directories
\* were not there before.
C22_Witness ==
    /\ Answered({"move"})
    /\ resp.success
    /\ req.id = ID1
    /\ ~exists(pre.fs, dirname(DestX))
    /\ exists(fs, DestX)
    /\ fs[DestX] = FileNode("a")
    /\ ~exists(fs, SrcA)
    /\ Len(FilesOf(historyFile)) = 1

----------------------------------------------------------------------------
\* The entry is a delete proposal: its dest_path is the DELETE sentinel or
\* its action is delete.
MarkedDelete(e) ==
    \/ e["dest_path"] = <<"DELETE">>
    \/ ("action" \in DOMAIN e /\ e["action"] = "delete")

\* C23: after a move-file request for a delete proposal (marked by the
\* DELETE sentinel or by its action) has succeeded, the source is gone from
\* the disk, with everything under it when it was a directory, and the rest
\* of the disk is as it was: nothing was created, at a destination or
\* elsewhere; the move history has one snapshot more, the entry's, with
\* status moved, and the queue file is the queue without the entry.
C23_DeleteRemovesSource ==
    (/\ Answered({"move"})
     /\ resp.success
     /\ MarkedDelete(EntryBefore)) =>
        LET e == EntryBefore
            src == SourcePath(e)
            h == FilesOf(historyFile)
        IN  /\ exists(pre.fs, src)
            /\ DOMAIN fs = DOMAIN pre.fs \ Under(pre.fs, src)
            /\ \A p \in DOMAIN fs : fs[p] = pre.fs[p]
            /\ ~exists(fs, src)
            /\ resp.message.text = IF isdir(pre.fs, src) THEN "Deleted directory"
                                   ELSE "Deleted file"
            /\ Len(h) = Len(FilesOf(pre.history)) + 1
            /\ SameBut(h[Len(h)], e, {"status", "moved_at"})
            /\ h[Len(h)]["status"] = "moved"
            /\ queueFile.files = Pop(pre.queue.files, FoundBefore(req.id))

\* A move-file request has removed a directory and the file in it, for a
\* proposal marked by the sentinel alone.
C23_Witness ==
    /\ Answered({"move"})
    /\ resp.success
    /\ EntryBefore = EntryDeleteBySentinel
    /\ isdir(pre.fs, SrcB)
    /\ exists(pre.fs, join(SrcB, "n.txt"))
    /\ ~exists(fs, SrcB)
    /\ ~exists(fs, join(SrcB, "n.txt"))

----------------------------------------------------------------------------
\* C24: an update-status request for an id the queue holds (answered without
\* an I/O error) succeeds and changes, in the queue file, the status of that
\* entry only (and last_updated): every other entry and every other key of
\* the entry is as it was; for an id the queue does not hold it is answered
\* 404 and the queue file is as it was.  Either way no history file is
\* written and nothing changes on disk.
C24_UpdateStatusFrame ==
    (/\ Answered({"update_status"})
     /\ req.id # NoId
     /\ req.status # ""
     /\ resp.code # 500) =>
        LET i == FoundBefore(req.id)
        IN  /\ historyFile = pre.history
            /\ skipHistoryFile = pre.skip
            /\ fs = pre.fs
            /\ IF i = 0
               THEN /\ resp.code = 404
                    /\ ~resp.success
                    /\ queueFile = pre.queue
               ELSE /\ resp.code = 200
                    /\ resp.success
                    /\ Len(queueFile.files) = Len(pre.queue.files)
                    /\ \A k \in 1..Len(pre.queue.files) :
                          k # i => queueFile.files[k] = pre.queue.files[k]
                    /\ SameBut(queueFile.files[i], pre.queue.files[i], {"status"})
                    /\ DOMAIN queueFile.files[i] = DOMAIN pre.queue.files[i]
                    /\ queueFile.files[i]["status"] = req.status
                    /\ queueFile.schema_version = pre.queue.schema_version

\* An update-status request has set the status of the second of three
\* entries.
C24_Witness ==
    /\ Answered({"update_status"})
    /\ resp.success
    /\ req.id = ID2
    /\ req.status = "rejected"
    /\ Len(queueFile.files) = 3
    /\ queueFile.files[2]["status"] = "rejected"
    /\ queueFile.files[1]["status"] = "pending"

----------------------------------------------------------------------------
\* The statuses of the enumeration.
StatusEnum == {"pending", "approved", "rejected", "moved", "skipped"}

\* C25: every entry of the queue file has a status of the enumeration,
\* whatever update-status requests were served.
C25_StatusInEnum ==
    \A k \in 1..Len(queueFile.files) : queueFile.files[k]["status"] \in StatusEnum

----------------------------------------------------------------------------
\* C26: after an update-queue request has succeeded, the files of the queue
\* file are exactly the list the request gave, the schema_version is the one
\* the queue file had, no history file is changed and nothing has changed on
\* disk.
C26_ReplaceQueueFiles ==
    (Answered({"update_queue"}) /\ resp.success) =>
        /\ resp.code = 200
        /\ queueFile.files = req.files
        /\ queueFile.schema_version = pre.queue.schema_version
        /\ DOMAIN queueFile = DOMAIN pre.queue
        /\ historyFile = pre.history
        /\ skipHistoryFile = pre.skip
        /\ fs = pre.fs

\* An update-queue request has replaced a queue of three entries by two of
\* them in another order.
C26_Witness ==
    /\ Answered({"update_queue"})
    /\ resp.success
    /\ Len(pre.queue.files) = 3
    /\ req.files = <<EntryC, EntryA>>
    /\ queueFile.files = <<EntryC, EntryA>>

----------------------------------------------------------------------------
\* The request lacks a field it needs: update-status its id or its status,
\* move-file and skip-file their id, a bulk request its ids (absent or an
\* empty list), update-queue its files.
MissingField ==
    \/ req.op = "update_status" /\ (req.id = NoId \/ req.status = "")
    \/ req.op \in {"move", "skip"} /\ req.id = NoId
    \/ req.op \in {"bulk_move", "bulk_skip"} /\ req.ids = <<>>
    \/ req.op = "update_queue" /\ ~req.has_files

\* C27: a request that lacks a required field is answered with 400, and the
\* three files and the disk are what they were when it came.
C27_MissingFieldRejected ==
    (pc = "done" /\ MissingField) =>
        /\ resp.code = 400
        /\ ~resp.success
        /\ queueFile = pre.queue
        /\ historyFile = pre.history
        /\ skipHistoryFile = pre.skip
        /\ fs = pre.fs

\* A skip-file request without an id was answered 400.
C27_Witness ==
    /\ Answered({"skip"})
    /\ req.id = NoId
    /\ resp.code = 400
    /\ resp.error = "Missing file id"

----------------------------------------------------------------------------
\* C28: while a move-file or a skip-file request is in hand, no step, the
\* death of the process included, takes an id out of the three files taken
\* together, and an id that leaves the queue file is in a history file
\* already: the history is written before the queue.
C28_HistoryBeforeQueue ==
    [][req.op \in {"move", "skip"} =>
          /\ QueueIds \subseteq IdsIn(queueFile'.files)
                                  \cup IdsIn(FilesOf(historyFile'))
                                  \cup IdsIn(FilesOf(skipHistoryFile'))
          /\ \A id \in QueueIds \ IdsIn(queueFile'.files) :
                id \in MoveHistoryIds \cup SkipHistoryIds]_vars

\* The process died between the two writes of a skip-file request: the
\* entry is in the skip history and still in the queue.
C28_Witness ==
    /\ pc = "idle"
    /\ served = 1
    /\ \E id \in QueueIds : id \in SkipHistoryIds

----------------------------------------------------------------------------
\* C29: while a bulk request is in hand, every item processed so far has its
\* snapshot in the history file of the operation already, so that no state
\* of the files has a processed entry in neither the queue file nor a
\* history file.
C29_BulkHistoryPerItem ==
    req.op \in {"bulk_move", "bulk_skip"} =>
        \A id \in Range(processed_ids) :
            /\ id \in IdsIn(BulkHistoryNow)
            /\ id \in QueueIds \cup MoveHistoryIds \cup SkipHistoryIds

----------------------------------------------------------------------------
\* What the request in hand has made: whether it succeeded, the disk, the
\* entries of the queue file and those of the move history.
Outcome ==
    [success |-> resp.success, fs |-> fs, queue |-> queueFile.files,
     history |-> FilesOf(historyFile)]

\* C30: when nothing goes wrong around the server, a bulk-move request of
\* one id ends as the move-file request for that id ends from the same queue,
\* move history and disk: the same success or failure, the same disk, the
\* same entries in the queue file and in the move history (delete proposals
\* whose source is a directory included).
C30_BulkOfOneIsSingle ==
    /\ Answered({"move"}) => Outcome = MoveFileResult(pre, req.id)
    /\ (Answered({"bulk_move"}) /\ Len(req.ids) = 1) =>
          Outcome = MoveFileResult(pre, req.ids[1])

----------------------------------------------------------------------------
\* The snapshots a skip-file or bulk-skip request has added to the skip
\* history.
NewSkipSnapshots ==
    LET h == FilesOf(skipHistoryFile)
    IN  {h[k] : k \in (Len(FilesOf(pre.skip)) + 1)..Len(h)}

\* C31: after a skip-file or bulk-skip request is answered, every snapshot it
\* added to the skip history has as skipped_to the path at which the skipped
\* file now is, with the content it had at its source; skipped_to is null
\* only for an entry whose source was not on disk when the request began, so
\* that the server did not move it.
C31_SkippedToIsWhereTheFileIs ==
    Answered({"skip", "bulk_skip"}) =>
        \A s \in NewSkipSnapshots :
            IF s["skipped_to"] = None
            THEN ~exists(pre.fs, SourcePath(s))
            ELSE /\ exists(pre.fs, SourcePath(s))
                 /\ exists(fs, s["skipped_to"])
                 /\ fs[s["skipped_to"]] = pre.fs[SourcePath(s)]

----------------------------------------------------------------------------
\* The keys of a proposal that an execution has no business changing.
CarriedKeys ==
    {"id", "source_path", "dest_path", "action", "confidence", "reasoning",
     "confidence_factors", "alternatives"}

\* The snapshot a successful move-file or skip-file request has appended.
LastOf(doc) == FilesOf(doc)[Len(FilesOf(doc))]

\* C32: the snapshot that a successful move-file request appends to the move
\* history is the entry the queue held, key for key, except for status and
\* the added moved_at; the snapshot that a successful skip-file request
\* appends to the skip history is the entry except for status and the added
\* skipped_at and skipped_to.  In particular id, source_path, dest_path,
\* action, confidence, reasoning, confidence_factors and alternatives are
\* as they were, and a key the entry lacks is not added.
C32_SnapshotCarriesEntry ==
    /\ (Answered({"move"}) /\ resp.success) =>
           /\ Len(FilesOf(historyFile)) = Len(FilesOf(pre.history)) + 1
           /\ SameBut(LastOf(historyFile), EntryBefore,
                      {"status", "moved_at"})
           /\ \A k \in CarriedKeys :
                  /\ (k \in DOMAIN EntryBefore) = (k \in DOMAIN LastOf(historyFile))
                  /\ k \in DOMAIN EntryBefore =>
                         LastOf(historyFile)[k] = EntryBefore[k]
    /\ (Answered({"skip"}) /\ resp.success) =>
           /\ Len(FilesOf(skipHistoryFile)) = Len(FilesOf(pre.skip)) + 1
           /\ SameBut(LastOf(skipHistoryFile), EntryBefore,
                      {"status", "skipped_at", "skipped_to"})
           /\ \A k \in CarriedKeys :
                  /\ (k \in DOMAIN EntryBefore) = (k \in DOMAIN LastOf(skipHistoryFile))
                  /\ k \in DOMAIN EntryBefore =>
                         LastOf(skipHistoryFile)[k] = EntryBefore[k]

\* A skip-file request has skipped EntryC: the snapshot has the source path
\* as the proposal spelled it, the proposal's destination, action, confidence
\* and reasoning, and the three keys of a skip.
C32_Witness ==
    /\ Answered({"skip"})
    /\ resp.success
    /\ req.id = ID3
    /\ EntryBefore = EntryC
    /\ LastOf(skipHistoryFile)["source_path"] = <<"in2", "a_nfd.txt">>
    /\ LastOf(skipHistoryFile)["confidence"] = 35
    /\ LastOf(skipHistoryFile)["status"] = "skipped"
    /\ LastOf(skipHistoryFile)["skipped_to"] # None
    /\ "skipped_at" \in DOMAIN LastOf(skipHistoryFile)

----------------------------------------------------------------------------
\* A proposal, a document and an outcome with status and confidence masked.
Masked(file_entry) ==
    [k \in DOMAIN file_entry |->
        IF k \in {"status", "confidence"} THEN "masked" ELSE file_entry[k]]
MaskedFiles(files) == [k \in DOMAIN files |-> Masked(files[k])]
MaskedDoc(doc) ==
    IF "missing" \in DOMAIN doc THEN doc
    ELSE [doc EXCEPT !.files = MaskedFiles(@)]
MaskedBefore ==
    [queue |-> MaskedDoc(pre.queue), history |-> MaskedDoc(pre.history),
     skip |-> MaskedDoc(pre.skip), fs |-> pre.fs]
MaskedResult(r) ==
    [r EXCEPT !.queue = MaskedFiles(@), !.history = MaskedFiles(@)]

\* What the request in hand has made, with the skip history for a skip.
SkipOutcome ==
    [success |-> resp.success, fs |-> fs, queue |-> queueFile.files,
     history |-> FilesOf(skipHistoryFile)]

\* C33: when nothing goes wrong around the server, what move-file, skip-file,
\* bulk-move and bulk-skip make of a queue (success or failure, the disk,
\* the entries left in the queue file and those in the history, status and
\* confidence aside) is what they make of the same queue with the status
\* and the confidence of every entry masked: two runs that differ only in
\* those two fields end alike.  The history of the other kind is untouched.
C33_BlindToStatusAndConfidence ==
    /\ Answered({"move"}) =>
          /\ MaskedResult(Outcome)
                = MaskedResult(MoveFileResult(MaskedBefore, req.id))
          /\ skipHistoryFile = pre.skip
    /\ Answered({"skip"}) =>
          /\ MaskedResult(SkipOutcome)
                = MaskedResult(SkipFileResult(MaskedBefore, req.id))
          /\ historyFile = pre.history
    /\ Answered({"bulk_move"}) =>
          /\ MaskedResult(Outcome)
                = MaskedResult(BulkMoveResult(MaskedBefore, req.ids))
          /\ skipHistoryFile = pre.skip
    /\ Answered({"bulk_skip"}) =>
          /\ MaskedResult(SkipOutcome)
                = MaskedResult(BulkSkipResult(MaskedBefore, req.ids))
          /\ historyFile = pre.history

\* A bulk-move request has carried out the delete proposal EntryB, which a
\* user had marked rejected and which has a low confidence, and then moved
\* EntryA.
C33_Witness ==
    /\ Answered({"bulk_move"})
    /\ resp.success
    /\ req.ids = <<ID2, ID1>>
    /\ pre.queue.files[2] = Regrade(EntryB, [status |-> "rejected", confidence |-> 20])
    /\ ~exists(fs, SrcB)
    /\ exists(fs, DestX)
    /\ queueFile.files = <<pre.queue.files[3]>>
    /\ Len(FilesOf(historyFile)) = 2

----------------------------------------------------------------------------
\* C34: after a successful move-file or skip-file request for an id, the
\* queue file is the queue as it was with exactly one entry taken out, the
\* first one that carries the id: it is one entry shorter, the entries before
\* that position are as they were and where they were, and the entries after
\* it are as they were, each one place further up.
C34_RemovesExactlyThatEntry ==
    (Answered({"move", "skip"}) /\ resp.success) =>
        LET old == pre.queue.files
            new == queueFile.files
            i == FoundBefore(req.id)
        IN  /\ i \in 1..Len(old)
            /\ old[i]["id"] = req.id
            /\ Len(new) = Len(old) - 1
            /\ \A k \in 1..(i - 1) : new[k] = old[k]
            /\ \A k \in i..Len(new) : new[k] = old[k + 1]

\* A skip-file request has taken the second of three entries out of the
\* queue: the first and the third are left, in that order.
C34_Witness ==
    /\ Answered({"skip"})
    /\ resp.success
    /\ req.id = ID2
    /\ pre.queue.files = <<EntryA, EntryB, EntryC>>
    /\ queueFile.files = <<EntryA, EntryC>>

----------------------------------------------------------------------------
\* The handler of move-file, or the loop of bulk-move, has made its
\* no-clobber check for the entry in hand and stands before shutil.move.
BeforeTheMove == pc \in {"move_move", "bulk_move_move"}

\* C35: when a file is at the destination path of the entry in hand at the
\* moment the server comes to its move (another process has created it after
\* the destination-exists check found the path free), the step of the server
\* leaves that file at the path with its content: it is not overwritten.
C35_NoClobberUnderRace ==
    [][(/\ BeforeTheMove
        /\ exists(fs, DestPath(queue_data.files[file_index]))
        /\ pc' # "idle") =>
           LET dest_path == DestPath(queue_data.files[file_index])
           IN  /\ exists(fs', dest_path)
               /\ fs'[dest_path] = fs[dest_path]]_vars

----------------------------------------------------------------------------
\* The paths in the holding directory.
Held(f) == {p \in DOMAIN f : IsPrefix(SKIPPED_FOLDER, p) /\ p # SKIPPED_FOLDER}

\* C36: after a skip-file or bulk-skip request is answered, every file that
\* was on disk when the request began is either where it was, with its
\* content, or in the holding directory, with its content; and every file
\* that was in the holding directory already is there still, with its
\* content.
C36_SkipDestroysNothing ==
    Answered({"skip", "bulk_skip"}) =>
        /\ \A n \in FileNodes(pre.fs) :
              \/ exists(fs, n[1]) /\ fs[n[1]] = n[2]
              \/ \E p \in Held(fs) : fs[p] = n[2]
        /\ \A p \in Held(pre.fs) : exists(fs, p) /\ fs[p] = pre.fs[p]

----------------------------------------------------------------------------
\* The source of the entry a skip-file request has found.
SkipSource == SourcePath(queue_data.files[file_index])

\* C37: when the handler of skip-file comes to relocate a source that is on
\* disk and the source is still at its path after the step (os.makedirs of
\* the holding directory or shutil.move has raised), the step answers with
\* the error 500; the queue file, the skip history and the move history are
\* what they were when the request began; and the entry in the queue file
\* has the status it had and neither skipped_to nor skipped_at.
C37_SkipRelocationError ==
    [][(/\ pc = "skip_file"
        /\ exists(fs, SkipSource)
        /\ exists(fs', SkipSource)
        /\ pc' # "idle") =>
           /\ pc' = "done"
           /\ resp'.code = 500
           /\ ~resp'.success
           /\ queueFile' = pre.queue
           /\ skipHistoryFile' = pre.skip
           /\ historyFile' = pre.history
           /\ LET e == queueFile'.files[file_index]
              IN  /\ e["id"] = req.id
                  /\ e = pre.queue.files[FoundBefore(req.id)]
                  /\ "skipped_to" \notin DOMAIN e
                  /\ "skipped_at" \notin DOMAIN e]_vars

\* A skip-file request for EntryA was answered with 500 after the holding
\* directory was made and the move raised: the source is where it was and
\* the files are as they were.
C37_Witness ==
    /\ Answered({"skip"})
    /\ resp.code = 500
    /\ req.id = ID1
    /\ exists(pre.fs, SrcA)
    /\ exists(fs, SrcA)
    /\ ~exists(pre.fs, SKIPPED_FOLDER)
    /\ isdir(fs, SKIPPED_FOLDER)
    /\ queueFile = pre.queue
    /\ queueFile.files[1] = EntryA
    /\ skipHistoryFile = NoFile

====
